---- MODULE Spec2Model ----
(***************************************************************************)
(* Model of the crav-builder-web client: the BaseView / TableView data     *)
(* grid over the tables / fields / records store, and the subscription     *)
(* limit gate.  Every handler is split at its awaits: the step that issues *)
(* the request (capturing the render's closure), the step in which the     *)
(* backend serves it, and the continuation that updates the local state.   *)
(***************************************************************************)
EXTENDS Integers, Sequences, FiniteSets, TLC

\* ------------------------------------------------------------------ bounds
\* rows the run may insert into bases / tables / fields / records (ids are 1..MaxRows)
MaxRows == 4
\* longest text typed into a cell editor, in characters
MaxTextLen == 2
\* rows the cell-editing run may add to the table it starts with
MaxFrameRows == 2
MaxLimitRows == 1
\* fields that two browsers add to the table they both show
MaxPeerRows == 2
\* requests of BaseView in flight at once
MaxOverlap == 2
\* rows of workspaces and runs of loadWorkspaces in flight, taken together
MaxWorkspaces == 3
\* rows of ai_sessions that a run of the builder stores
MaxSessions == 2
\* messages that the user sends in one chat of the builder, and rows that the
\* sends of a run store in each of llm_requests, usage_events and change_requests
MaxSends == 1

\* ----------------------------------------------------------- small helpers
None == <<>>
Some(x) == <<x>>

Range(s) == {s[i] : i \in 1..Len(s)}

RemoveAt(s, i) == [j \in 1..(Len(s) - 1) |-> IF j < i THEN s[j] ELSE s[j + 1]]

ReplaceAt(s, i, x) == [j \in 1..Len(s) |-> IF j = i THEN x ELSE s[j]]

\* Array.prototype.filter with the predicate "id !== x"
RECURSIVE FilterOutId(_, _)
FilterOutId(s, x) ==
  IF s = <<>> THEN <<>>
  ELSE IF Head(s).id = x THEN FilterOutId(Tail(s), x)
       ELSE <<Head(s)>> \o FilterOutId(Tail(s), x)

\* Array.prototype.find by id, as an option
RECURSIVE FindById(_, _)
FindById(s, x) ==
  IF s = <<>> THEN None
  ELSE IF Head(s).id = x THEN Some(Head(s)) ELSE FindById(Tail(s), x)

\* every enumeration of the finite set S
Perms(S) ==
  {s \in [1..Cardinality(S) -> S] : \A i, j \in 1..Cardinality(S) : i # j => s[i] # s[j]}

\* .order('order_index', { ascending: true }): rows with equal keys come in
\* an order the backend does not fix
OrderByIndexAsc(S) ==
  {s \in Perms(S) : \A i \in 1..(Len(s) - 1) : s[i].order_index <= s[i + 1].order_index}

\* .order('created_at', { ascending: false })
OrderByCreatedDesc(S) ==
  {s \in Perms(S) : \A i \in 1..(Len(s) - 1) : s[i].created_at >= s[i + 1].created_at}

\* ------------------------------------------------------------- cell values
\* A JSON value of a record's data map.  k is the JavaScript type; a number
\* is m / 10^e with e = 0 or m not a multiple of 10; NaN is a number to
\* typeof and is kept apart here.
StrV(t) == [k |-> "string", s |-> t, m |-> 0, e |-> 0, b |-> FALSE]
NumV(m, e) == [k |-> "number", s |-> <<>>, m |-> m, e |-> e, b |-> FALSE]
BoolV(b) == [k |-> "boolean", s |-> <<>>, m |-> 0, e |-> 0, b |-> b]
NaN == [k |-> "NaN", s |-> <<>>, m |-> 0, e |-> 0, b |-> FALSE]

Digit == {"0", "1", "2", "3", "4", "5", "6", "7", "8", "9"}

DigitVal(c) ==
  CASE c = "0" -> 0 [] c = "1" -> 1 [] c = "2" -> 2 [] c = "3" -> 3 [] c = "4" -> 4
    [] c = "5" -> 5 [] c = "6" -> 6 [] c = "7" -> 7 [] c = "8" -> 8 [] c = "9" -> 9

DigitChar(d) ==
  CASE d = 0 -> "0" [] d = 1 -> "1" [] d = 2 -> "2" [] d = 3 -> "3" [] d = 4 -> "4"
    [] d = 5 -> "5" [] d = 6 -> "6" [] d = 7 -> "7" [] d = 8 -> "8" [] d = 9 -> "9"

\* a number in its normal form: trailing zeros of the fraction dropped
RECURSIVE Normal(_, _)
Normal(m, e) == IF e > 0 /\ m % 10 = 0 THEN Normal(m \div 10, e - 1) ELSE NumV(m, e)

RECURSIVE SkipWhite(_)
SkipWhite(t) == IF t # <<>> /\ Head(t) = " " THEN SkipWhite(Tail(t)) ELSE t

\* length of the longest prefix of t made of digits
RECURSIVE DigitRun(_)
DigitRun(t) == IF t # <<>> /\ Head(t) \in Digit THEN 1 + DigitRun(Tail(t)) ELSE 0

\* value of a sequence of digits read as a decimal numeral (0 for none)
RECURSIVE DigitsVal(_)
DigitsVal(t) == IF t = <<>> THEN 0 ELSE 10 * DigitsVal(SubSeq(t, 1, Len(t) - 1)) + DigitVal(t[Len(t)])

\* parseFloat: leading white space is skipped, then the longest prefix
\* [sign] digits [. digits] | [sign] . digits is read; NaN when there is none
parseFloat(t) ==
  LET s == SkipWhite(t)
      signed == s # <<>> /\ Head(s) \in {"-", "+"}
      neg == s # <<>> /\ Head(s) = "-"
      body == IF signed THEN Tail(s) ELSE s
      il == DigitRun(body)
      rest == SubSeq(body, il + 1, Len(body))
      fl == IF rest # <<>> /\ Head(rest) = "." THEN DigitRun(Tail(rest)) ELSE 0
      mant == DigitsVal(SubSeq(body, 1, il) \o SubSeq(rest, 2, fl + 1))
  IN IF il = 0 /\ fl = 0 THEN NaN
     ELSE Normal(IF neg THEN 0 - mant ELSE mant, fl)

\* the values that || replaces by its right operand
Falsy(v) ==
  \/ v.k = "NaN"
  \/ v.k = "number" /\ v.m = 0
  \/ v.k = "string" /\ v.s = <<>>
  \/ v.k = "boolean" /\ ~v.b

RECURSIVE NatToText(_)
NatToText(n) == IF n < 10 THEN <<DigitChar(n)>> ELSE NatToText(n \div 10) \o <<DigitChar(n % 10)>>

\* n as a numeral of at least w digits
RECURSIVE PadTo(_, _)
PadTo(t, w) == IF Len(t) >= w THEN t ELSE PadTo(<<"0">> \o t, w)

\* Number.prototype.toString / Boolean.prototype.toString / String.prototype.toString
toString(v) ==
  CASE v.k = "string" -> v.s
    [] v.k = "boolean" -> IF v.b THEN <<"t", "r", "u", "e">> ELSE <<"f", "a", "l", "s", "e">>
    [] v.k = "NaN" -> <<"N", "a", "N">>
    [] v.k = "number" ->
         LET a == IF v.m < 0 THEN 0 - v.m ELSE v.m
             d == PadTo(NatToText(a), v.e + 1)
             ip == SubSeq(d, 1, Len(d) - v.e)
             fp == SubSeq(d, Len(d) - v.e + 1, Len(d))
         IN (IF v.m < 0 THEN <<"-">> ELSE <<>>) \o ip \o (IF v.e > 0 THEN <<".">> \o fp ELSE <<>>)

\* handleStartEdit: currentValue?.toString() || '' for the value under a key
\* of a data map, undefined when the key is absent
StartEditText(data, fieldId) ==
  IF fieldId \notin DOMAIN data THEN <<>> ELSE toString(data[fieldId])

\* handleAddRecord with the number branch of the default left out
DefaultValue_NoNumber(type) ==
  IF type = "checkbox" THEN BoolV(FALSE)
  ELSE StrV(<<>>)

\* handleAddRecord: the default of one field
DefaultValue(type) ==
  IF type = "checkbox" THEN BoolV(FALSE)
  ELSE IF type = "number" THEN NumV(0, 0)
  ELSE StrV(<<>>)

\* handleAddRecord: initialData built by fields.forEach
initialData(fs) ==
  [fid \in {fs[i].id : i \in 1..Len(fs)} |->
     LET i == CHOOSE j \in 1..Len(fs) : fs[j].id = fid /\ \A l \in (j + 1)..Len(fs) : fs[l].id # fid
     IN DefaultValue(fs[i].type)]

\* handleSaveEdit without the `|| 0` after parseFloat
CoerceEdit_NoOrZero(type, text) ==
  IF type = "number" THEN parseFloat(text)
  ELSE IF type = "checkbox" THEN BoolV(text = <<"t", "r", "u", "e">>)
  ELSE StrV(text)

\* handleSaveEdit taking any non-empty text of a checkbox cell as true
CoerceEdit_Truthy(type, text) ==
  IF type = "number" THEN (IF Falsy(parseFloat(text)) THEN NumV(0, 0) ELSE parseFloat(text))
  ELSE IF type = "checkbox" THEN BoolV(text # <<>>)
  ELSE StrV(text)

\* handleSaveEdit: the coercion of editValue by the field's type
CoerceEdit(type, text) ==
  IF type = "number" THEN (IF Falsy(parseFloat(text)) THEN NumV(0, 0) ELSE parseFloat(text))
  ELSE IF type = "checkbox" THEN BoolV(text = <<"t", "r", "u", "e">>)
  ELSE StrV(text)

\* handleSaveEdit without the spread of record.data
newData_NoSpread(data, fieldId, value) ==
  [fid \in {fieldId} |-> value]

\* handleSaveEdit: { ...record.data, [editingCell.fieldId]: value }
newData(data, fieldId, value) ==
  [fid \in DOMAIN data \cup {fieldId} |-> IF fid = fieldId THEN value ELSE data[fid]]

\* every text of at most n characters over the alphabet A
TextsOver(A, n) == UNION {[1..l -> A] : l \in 0..n}

\* --------------------------------------------------------------- the store
\* CHECK (type IN (...)) of the fields table
FIELD_TYPES ==
  {"text", "number", "select", "multiselect", "date", "checkbox", "url", "email", "phone"}

\* the signed-in user (useAuth) and the workspace that Dashboard selected
user == "u1"
workspace == [id |-> 1, name |-> "My Workspace", owner_id |-> "u1", created_at |-> 1]

\* the workspaces table: the user's own workspace and one of another user,
\* of which the user is a member
workspaces == {workspace, [id |-> 2, name |-> "Team", owner_id |-> "u2", created_at |-> 2]}

\* the seeded rows of subscription_plans
FreePlan ==
  [name |-> "Free", price_monthly |-> 0, max_projects |-> 1, max_bases |-> 3,
   max_records_per_base |-> 1000, max_storage_mb |-> 100]
ProPlan ==
  [name |-> "Pro", price_monthly |-> 2900, max_projects |-> 10, max_bases |-> 20,
   max_records_per_base |-> 50000, max_storage_mb |-> 5000]
EnterprisePlan ==
  [name |-> "Enterprise", price_monthly |-> 9900, max_projects |-> -1, max_bases |-> -1,
   max_records_per_base |-> -1, max_storage_mb |-> 50000]
subscription_plans == {FreePlan, ProPlan, EnterprisePlan}

\* CHECK (status IN (...)) of user_subscriptions
SUBSCRIPTION_STATUS == {"active", "cancelled", "past_due", "trialing"}

VARIABLES
  db_bases,       \* rows of the bases table
  db_tables,      \* rows of the tables table
  db_fields,      \* rows of the fields table
  db_records,     \* rows of the records table
  now,            \* rows inserted so far: the source of ids and of created_at
  bases,          \* WorkspaceList: useState<Base[]>
  wlLoading,      \* WorkspaceList: const [loading, setLoading] = useState(true)
  wlPending,      \* WorkspaceList handlers suspended at an await
  selectedBase,   \* Dashboard: useState<Base | null>, as an option
  tables,         \* BaseView: useState<Table[]>
  selectedTable,  \* BaseView: useState<Table | null>, as an option
  bvLoading,      \* BaseView: const [loading, setLoading] = useState(true)
  bvPending,      \* BaseView handlers suspended at an await
  fields,         \* TableView: useState<Field[]>
  records,        \* TableView: useState<Record[]>
  tvLoading,      \* TableView: const [loading, setLoading] = useState(true)
  editingCell,    \* TableView: useState<{recordId, fieldId} | null>, as an option
  editValue,      \* TableView: useState(''), a sequence of characters
  tvPending,      \* TableView handlers suspended at an await
  db_projects,    \* rows of the projects table
  db_user_subscriptions, \* rows of user_subscriptions, each with its plan joined
  activeTab,      \* Dashboard: useState('dashboard')
  showBuilder,    \* Dashboard: useState(false)
  projects,       \* ProjectList: useState<Project[]>
  plLoading,      \* ProjectList: const [loading, setLoading] = useState(true)
  canCreateMore,  \* ProjectList: useState(true)
  plPending,      \* ProjectList handlers suspended at an await
  rpcResult,      \* what the last direct call of the stored procedure returned
  db_ai_sessions,     \* rows of the ai_sessions table
  db_change_requests, \* rows of the change_requests table
  db_pipeline_stages, \* rows of the pipeline_stages table
  db_llm_requests,    \* rows of the llm_requests table
  db_usage_events,    \* rows of the usage_events table
  selectedProjectId,  \* Dashboard: useState<string | undefined>, as an option
  mode,           \* EnhancedAppBuilder: useState<'discussion' | 'build'>('discussion')
  messages,       \* EnhancedAppBuilder: useState<Message[]>([])
  input,          \* EnhancedAppBuilder: useState(''), a sequence of characters
  abLoading,      \* EnhancedAppBuilder: const [loading, setLoading] = useState(false)
  sessionId,      \* EnhancedAppBuilder: useState<string | null>, as an option
  pendingChanges, \* EnhancedAppBuilder: useState<ChangeRequest[]>([])
  abPending,      \* EnhancedAppBuilder handlers suspended at an await
  peer,           \* the grid of a second browser on the same table, as an option
  db_workspaces,        \* rows of the workspaces table
  db_workspace_members, \* rows of the workspace_members table
  dashWorkspaces,     \* Dashboard: const [workspaces, setWorkspaces] = useState<Workspace[]>([])
  selectedWorkspace,  \* Dashboard: useState<Workspace | null>, as an option
  dashLoading,        \* Dashboard: const [loading, setLoading] = useState(true)
  dashPending,        \* Dashboard's loadWorkspaces runs suspended at an await
  plans,              \* SubscriptionManager: useState<SubscriptionPlan[]>([])
  currentSubscription, \* SubscriptionManager: useState<UserSubscription | null>, as an option
  currentPlan,        \* SubscriptionManager: useState<SubscriptionPlan | null>, as an option
  smLoading,          \* SubscriptionManager: const [loading, setLoading] = useState(true)
  usage,              \* UsageStats: useState<UsageData | null>, as an option
  usLoading,          \* UsageStats: const [loading, setLoading] = useState(true)
  last            \* the step just taken: handler and event

storeVars == <<db_bases, db_tables, db_fields, db_records, now>>
wlVars == <<bases, wlLoading, wlPending, selectedBase>>
bvVars == <<tables, selectedTable, bvLoading, bvPending>>
tvVars == <<fields, records, tvLoading, editingCell, editValue, tvPending>>
gridVars == <<storeVars, wlVars, bvVars, tvVars>>

planVars == <<db_projects, db_user_subscriptions>>
plVars == <<projects, plLoading, canCreateMore, plPending>>
limitVars == <<planVars, activeTab, showBuilder, plVars, rpcResult>>

aiVars == <<db_ai_sessions, db_change_requests, db_pipeline_stages, db_llm_requests,
           db_usage_events>>
abVars == <<mode, messages, input, abLoading, sessionId, pendingChanges, abPending>>
builderVars == <<aiVars, selectedProjectId, abVars>>

dashVars == <<db_workspaces, db_workspace_members, dashWorkspaces, selectedWorkspace,
             dashLoading, dashPending>>

subVars == <<plans, currentSubscription, currentPlan, smLoading, usage, usLoading>>

vars == <<gridVars, limitVars, builderVars, peer, dashVars, subVars, last>>

Step(op, ev) == [op |-> op, ev |-> ev]

\* a step of WorkspaceList, BaseView or TableView: these components hold no
\* reference to the projects, the subscription, the tabs or ProjectList
GridStep(op, ev) ==
  last' = Step(op, ev) /\ UNCHANGED <<limitVars, builderVars, peer, dashVars, subVars>>

\* a step of Dashboard's tabs or of ProjectList: the builder is not rendered
LimitStep(op, ev) == last' = Step(op, ev) /\ UNCHANGED <<builderVars, peer, dashVars, subVars>>

\* ------------------------------------------------------ requests in flight
\* a BaseView handler suspended at an await, with the closure of its render
BvEntry(op, ph, tableId, req) ==
  [op |-> op, ph |-> ph, mounted |-> TRUE, baseId |-> selectedBase[1].id, tables |-> tables,
   selectedTable |-> selectedTable, tableId |-> tableId, req |-> req, ok |-> FALSE, row |-> None]

\* a TableView handler suspended at an await, with the closure of its render;
\* mounted turns FALSE when the TableView that started it is unmounted
TvEntry(op, tid, arg, req) ==
  [op |-> op, ph |-> "sent", mounted |-> TRUE, tid |-> tid, fields |-> fields,
   records |-> records, editingCell |-> editingCell, editValue |-> editValue,
   arg |-> arg, req |-> req,
   ok |-> FALSE, row |-> None, fres |-> None, rres |-> None]

Detach(q) == [i \in 1..Len(q) |-> [q[i] EXCEPT !.mounted = FALSE]]

\* BaseView is rendered by Dashboard while a base is selected, and shows its
\* header once loadTables is through
BvReady == selectedBase # None /\ ~bvLoading

TvMounted == BvReady /\ selectedTable # None

\* the grid of TableView is rendered (not the spinner) and takes clicks
TvReady == TvMounted /\ ~tvLoading

\* loadData as started by the effect on [table.id]: setLoading(true) and the
\* two selects of Promise.all sent
LoadEntry(tid) ==
  [op |-> "loadData", ph |-> "sent", mounted |-> TRUE, tid |-> tid, fields |-> <<>>,
   records |-> <<>>, editingCell |-> None, editValue |-> <<>>, arg |-> 0, req |-> None,
   ok |-> FALSE, row |-> None, fres |-> None, rres |-> None]

\* What a BaseView render with a new selectedTable does to TableView: unmount
\* it, mount a fresh one (its effect runs loadData), or re-run the effect
\* because table.id changed.
RenderTableView(old, new) ==
  IF new = None
  THEN /\ fields' = <<>> /\ records' = <<>> /\ tvLoading' = TRUE
       /\ editingCell' = None /\ editValue' = <<>>
       /\ tvPending' = Detach(tvPending)
  ELSE IF old = None
  THEN /\ fields' = <<>> /\ records' = <<>> /\ tvLoading' = TRUE
       /\ editingCell' = None /\ editValue' = <<>>
       /\ tvPending' = Append(Detach(tvPending), LoadEntry(new[1].id))
  ELSE IF old[1].id # new[1].id
  THEN /\ tvLoading' = TRUE
       /\ tvPending' = Append(tvPending, LoadEntry(new[1].id))
       /\ UNCHANGED <<fields, records, editingCell, editValue>>
  ELSE UNCHANGED tvVars

\* ----------------------------------------------------------- WorkspaceList
\* WorkspaceList is rendered by Dashboard on the 'bases' tab while neither the
\* builder nor a base is open
WlReady == ~showBuilder /\ selectedBase = None /\ activeTab = "bases" /\ ~wlLoading

WlEntry(op, ph, req) ==
  [op |-> op, ph |-> ph, mounted |-> TRUE, bases |-> bases, req |-> req,
   ok |-> FALSE, row |-> None]

\* loadBases as started by the effect on [workspace.id]
LoadBasesEntry ==
  [op |-> "loadBases", ph |-> "select", mounted |-> TRUE, bases |-> <<>>, req |-> None,
   ok |-> FALSE, row |-> None]

\* loadTables as started by the effect on [base.id]
LoadTablesEntry(baseId) ==
  [op |-> "loadTables", ph |-> "select", mounted |-> TRUE, baseId |-> baseId,
   tables |-> <<>>, selectedTable |-> None, tableId |-> 0, req |-> None,
   ok |-> FALSE, row |-> None]

\* loadBases: the select is served
ServeLoadBases(i, ok) ==
  /\ i \in 1..Len(wlPending)
  /\ wlPending[i].op = "loadBases" /\ wlPending[i].ph = "select"
  /\ \E data \in OrderByCreatedDesc({b \in db_bases : b.workspace_id = workspace.id}) :
       wlPending' = ReplaceAt(wlPending, i,
                      [wlPending[i] EXCEPT !.ph = "resp", !.ok = ok,
                                           !.row = IF ok THEN Some(data) ELSE None])
  /\ GridStep("loadBases", "serve")
  /\ UNCHANGED <<storeVars, bases, wlLoading, selectedBase, bvVars, tvVars>>

\* loadBases: the continuation after the await
LoadBasesDone(i) ==
  /\ i \in 1..Len(wlPending)
  /\ wlPending[i].op = "loadBases" /\ wlPending[i].ph = "resp"
  /\ LET e == wlPending[i]
     IN IF e.mounted
        THEN /\ bases' = IF e.row # None THEN e.row[1] ELSE bases
             /\ wlLoading' = FALSE
             /\ GridStep("loadBases", IF e.row # None THEN "ok" ELSE "error")
        ELSE /\ GridStep("loadBases", "unmounted")
             /\ UNCHANGED <<bases, wlLoading>>
  /\ wlPending' = RemoveAt(wlPending, i)
  /\ UNCHANGED <<storeVars, selectedBase, bvVars, tvVars>>

\* handleCreateBase up to its await: prompt, then the insert is sent
handleCreateBase(name) ==
  /\ WlReady
  /\ IF name = ""
     THEN /\ GridStep("handleCreateBase", "return")
          /\ UNCHANGED gridVars
     ELSE /\ wlPending' = Append(wlPending,
               WlEntry("handleCreateBase", "insert",
                       Some([workspace_id |-> workspace.id, name |-> name,
                             created_by |-> user])))
          /\ GridStep("handleCreateBase", "issue")
          /\ UNCHANGED <<storeVars, bases, wlLoading, selectedBase, bvVars, tvVars>>

\* the backend serves the insert into bases
ServeInsertBase(i, ok) ==
  /\ i \in 1..Len(wlPending)
  /\ wlPending[i].op = "handleCreateBase" /\ wlPending[i].ph = "insert"
  /\ LET req == wlPending[i].req[1]
         row == [id |-> now + 1, workspace_id |-> req.workspace_id, name |-> req.name,
                 created_by |-> req.created_by, created_at |-> now + 1]
     IN IF ok
        THEN /\ db_bases' = db_bases \cup {row}
             /\ now' = now + 1
             /\ wlPending' = ReplaceAt(wlPending, i,
                  [wlPending[i] EXCEPT !.ph = "resp", !.ok = TRUE, !.row = Some(row)])
        ELSE /\ UNCHANGED <<db_bases, now>>
             /\ wlPending' = ReplaceAt(wlPending, i, [wlPending[i] EXCEPT !.ph = "resp"])
  /\ GridStep("handleCreateBase", "serve")
  /\ UNCHANGED <<db_tables, db_fields, db_records, bases, wlLoading, selectedBase, bvVars, tvVars>>

\* handleCreateBase after its await
CreateBaseDone(i) ==
  /\ i \in 1..Len(wlPending)
  /\ wlPending[i].op = "handleCreateBase" /\ wlPending[i].ph = "resp"
  /\ LET e == wlPending[i]
     IN IF e.ok /\ e.mounted
        THEN /\ bases' = <<e.row[1]>> \o e.bases
             /\ GridStep("handleCreateBase", "ok")
        ELSE /\ GridStep("handleCreateBase", IF e.ok THEN "unmounted" ELSE "error")
             /\ UNCHANGED bases
  /\ wlPending' = RemoveAt(wlPending, i)
  /\ UNCHANGED <<storeVars, wlLoading, selectedBase, bvVars, tvVars>>

\* onSelectBase = setSelectedBase: Dashboard renders BaseView in place of the
\* tabs, so WorkspaceList is unmounted and a fresh BaseView runs loadTables
onSelectBase(j) ==
  /\ WlReady
  /\ j \in 1..Len(bases)
  /\ selectedBase' = Some(bases[j])
  /\ wlPending' = Detach(wlPending)
  /\ bases' = <<>> /\ wlLoading' = TRUE
  /\ tables' = <<>> /\ selectedTable' = None /\ bvLoading' = TRUE
  /\ bvPending' = Append(Detach(bvPending), LoadTablesEntry(bases[j].id))
  /\ GridStep("onSelectBase", "sync")
  /\ UNCHANGED <<storeVars, tvVars>>

\* ---------------------------------------------------------------- BaseView
\* onBack = setSelectedBase(null): BaseView and TableView are unmounted and a
\* fresh WorkspaceList runs loadBases
onBack ==
  /\ BvReady
  /\ selectedBase' = None
  /\ tables' = <<>> /\ selectedTable' = None /\ bvLoading' = TRUE
  /\ bvPending' = Detach(bvPending)
  /\ fields' = <<>> /\ records' = <<>> /\ tvLoading' = TRUE
  /\ editingCell' = None /\ editValue' = <<>>
  /\ tvPending' = Detach(tvPending)
  /\ bases' = <<>> /\ wlLoading' = TRUE
  /\ wlPending' = Append(Detach(wlPending), LoadBasesEntry)
  /\ GridStep("onBack", "sync")
  /\ UNCHANGED storeVars

\* loadTables: the select is served
ServeLoadTables(i, ok) ==
  /\ i \in 1..Len(bvPending)
  /\ bvPending[i].op = "loadTables" /\ bvPending[i].ph = "select"
  /\ \E data \in OrderByIndexAsc({t \in db_tables : t.base_id = bvPending[i].baseId}) :
       bvPending' = ReplaceAt(bvPending, i,
                      [bvPending[i] EXCEPT !.ph = "resp", !.ok = ok,
                                           !.row = IF ok THEN Some(data) ELSE None])
  /\ GridStep("loadTables", "serve")
  /\ UNCHANGED <<storeVars, wlVars, tables, selectedTable, bvLoading, tvVars>>

\* loadTables: the continuation after the await
LoadTablesDone(i) ==
  /\ i \in 1..Len(bvPending)
  /\ bvPending[i].op = "loadTables" /\ bvPending[i].ph = "resp"
  /\ LET e == bvPending[i]
         data == e.row
         sel == IF data # None /\ Len(data[1]) > 0 /\ e.selectedTable = None
                THEN Some(data[1][1]) ELSE selectedTable
     IN IF e.mounted
        THEN /\ tables' = IF data # None THEN data[1] ELSE tables
             /\ selectedTable' = sel
             /\ bvLoading' = FALSE
             /\ IF sel = None THEN UNCHANGED tvVars
                ELSE RenderTableView(IF bvLoading THEN None ELSE selectedTable, sel)
             /\ GridStep("loadTables", IF data # None THEN "ok" ELSE "error")
        ELSE /\ GridStep("loadTables", "unmounted")
             /\ UNCHANGED <<tables, selectedTable, bvLoading, tvVars>>
  /\ bvPending' = RemoveAt(bvPending, i)
  /\ UNCHANGED <<storeVars, wlVars>>

\* handleCreateTable up to its first await: prompt, then the insert is sent
handleCreateTable(name) ==
  /\ BvReady
  /\ IF name = ""
     THEN /\ GridStep("handleCreateTable", "return")
          /\ UNCHANGED gridVars
     ELSE /\ bvPending' = Append(bvPending,
               BvEntry("handleCreateTable", "insertTable", 0,
                       Some([base_id |-> selectedBase[1].id, name |-> name,
                             order_index |-> Len(tables)])))
          /\ GridStep("handleCreateTable", "issue")
          /\ UNCHANGED <<storeVars, wlVars, tables, selectedTable, bvLoading, tvVars>>

\* the backend serves the insert into tables (.insert().select().single())
ServeInsertTable(i, ok) ==
  /\ i \in 1..Len(bvPending)
  /\ bvPending[i].op = "handleCreateTable" /\ bvPending[i].ph = "insertTable"
  /\ LET req == bvPending[i].req[1]
         row == [id |-> now + 1, base_id |-> req.base_id, name |-> req.name,
                 order_index |-> req.order_index, created_at |-> now + 1]
     IN IF ok
        THEN /\ db_tables' = db_tables \cup {row}
             /\ now' = now + 1
             /\ bvPending' = ReplaceAt(bvPending, i,
                  [bvPending[i] EXCEPT !.ph = "tableResp", !.ok = TRUE, !.row = Some(row)])
        ELSE /\ UNCHANGED <<db_tables, now>>
             /\ bvPending' = ReplaceAt(bvPending, i,
                  [bvPending[i] EXCEPT !.ph = "tableResp", !.ok = FALSE])
  /\ GridStep("handleCreateTable", "serve")
  /\ UNCHANGED <<db_bases, db_fields, db_records, wlVars, tables, selectedTable, bvLoading, tvVars>>

\* handleCreateTable after the first await: the local list and the selection
\* are set and the insert of the default field is sent
CreateTableInserted(i) ==
  /\ i \in 1..Len(bvPending)
  /\ bvPending[i].op = "handleCreateTable" /\ bvPending[i].ph = "tableResp"
  /\ LET e == bvPending[i]
         next == [e EXCEPT !.ph = "insertField",
                           !.req = Some([table_id |-> e.row[1].id, name |-> "Name",
                                         type |-> "text", order_index |-> 0,
                                         required |-> TRUE])]
     IN IF e.ok
        THEN /\ bvPending' = ReplaceAt(bvPending, i, next)
             /\ IF e.mounted
                THEN /\ tables' = Append(e.tables, e.row[1])
                     /\ selectedTable' = e.row
                     /\ RenderTableView(selectedTable, e.row)
                     /\ GridStep("handleCreateTable", "ok")
                ELSE /\ GridStep("handleCreateTable", "unmounted")
                     /\ UNCHANGED <<tables, selectedTable, tvVars>>
        ELSE /\ bvPending' = RemoveAt(bvPending, i)
             /\ GridStep("handleCreateTable", "error")
             /\ UNCHANGED <<tables, selectedTable, tvVars>>
  /\ UNCHANGED <<storeVars, wlVars, bvLoading>>

\* a handler that reads the error of the field insert and deletes the table
ServeInsertDefaultField_Rollback(i, ok) ==
  /\ i \in 1..Len(bvPending)
  /\ bvPending[i].op = "handleCreateTable" /\ bvPending[i].ph = "insertField"
  /\ LET req == bvPending[i].req[1]
         row == [id |-> now + 1, table_id |-> req.table_id, name |-> req.name,
                 type |-> req.type, order_index |-> req.order_index,
                 required |-> req.required, created_at |-> now + 1]
     IN IF ok /\ (\E t \in db_tables : t.id = req.table_id)
        THEN /\ db_fields' = db_fields \cup {row}
             /\ now' = now + 1
             /\ UNCHANGED db_tables
        ELSE /\ db_tables' = {t \in db_tables : t.id # req.table_id}
             /\ UNCHANGED <<db_fields, now>>
  /\ bvPending' = RemoveAt(bvPending, i)
  /\ GridStep("handleCreateTable", "serveField")
  /\ UNCHANGED <<db_bases, db_records, wlVars, tables, selectedTable, bvLoading, tvVars>>

\* the backend serves the insert of the default field; nothing follows the
\* await in handleCreateTable, so the handler ends here
ServeInsertDefaultField(i, ok) ==
  /\ i \in 1..Len(bvPending)
  /\ bvPending[i].op = "handleCreateTable" /\ bvPending[i].ph = "insertField"
  /\ LET req == bvPending[i].req[1]
         row == [id |-> now + 1, table_id |-> req.table_id, name |-> req.name,
                 type |-> req.type, order_index |-> req.order_index,
                 required |-> req.required, created_at |-> now + 1]
     IN IF ok /\ (\E t \in db_tables : t.id = req.table_id)
        THEN /\ db_fields' = db_fields \cup {row}
             /\ now' = now + 1
        ELSE UNCHANGED <<db_fields, now>>
  /\ bvPending' = RemoveAt(bvPending, i)
  /\ GridStep("handleCreateTable", "serveField")
  /\ UNCHANGED <<db_bases, db_tables, db_records, wlVars, tables, selectedTable, bvLoading, tvVars>>

\* onClick of a table tab: setSelectedTable(table)
SelectTable(j) ==
  /\ BvReady
  /\ j \in 1..Len(tables)
  /\ selectedTable # Some(tables[j])
  /\ selectedTable' = Some(tables[j])
  /\ RenderTableView(selectedTable, Some(tables[j]))
  /\ GridStep("setSelectedTable", "sync")
  /\ UNCHANGED <<storeVars, wlVars, tables, bvLoading, bvPending>>

\* handleDeleteTable up to its await; the button is rendered for each table
\* while tables.length > 1
handleDeleteTable(tableId, confirm) ==
  /\ BvReady
  /\ Len(tables) > 1
  /\ tableId \in {tables[j].id : j \in 1..Len(tables)}
  /\ IF ~confirm
     THEN /\ GridStep("handleDeleteTable", "return")
          /\ UNCHANGED gridVars
     ELSE /\ bvPending' = Append(bvPending, BvEntry("handleDeleteTable", "delete", tableId, None))
          /\ GridStep("handleDeleteTable", "issue")
          /\ UNCHANGED <<storeVars, wlVars, tables, selectedTable, bvLoading, tvVars>>

\* a store whose fields and records do not follow their table
ServeDeleteTable_NoCascade(i, ok) ==
  /\ i \in 1..Len(bvPending)
  /\ bvPending[i].op = "handleDeleteTable" /\ bvPending[i].ph = "delete"
  /\ db_tables' = IF ok THEN {t \in db_tables : t.id # bvPending[i].tableId} ELSE db_tables
  /\ bvPending' = ReplaceAt(bvPending, i, [bvPending[i] EXCEPT !.ph = "resp", !.ok = ok])
  /\ GridStep("handleDeleteTable", "serve")
  /\ UNCHANGED <<db_bases, db_fields, db_records, now, wlVars, tables, selectedTable, bvLoading, tvVars>>

\* the backend serves the delete; fields and records go with their table
\* (ON DELETE CASCADE)
ServeDeleteTable(i, ok) ==
  /\ i \in 1..Len(bvPending)
  /\ bvPending[i].op = "handleDeleteTable" /\ bvPending[i].ph = "delete"
  /\ LET id == bvPending[i].tableId
     IN IF ok
        THEN /\ db_tables' = {t \in db_tables : t.id # id}
             /\ db_fields' = {f \in db_fields : f.table_id # id}
             /\ db_records' = {r \in db_records : r.table_id # id}
        ELSE UNCHANGED <<db_tables, db_fields, db_records>>
  /\ bvPending' = ReplaceAt(bvPending, i, [bvPending[i] EXCEPT !.ph = "resp", !.ok = ok])
  /\ GridStep("handleDeleteTable", "serve")
  /\ UNCHANGED <<db_bases, now, wlVars, tables, selectedTable, bvLoading, tvVars>>

\* handleDeleteTable after its await
DeleteTableDone(i) ==
  /\ i \in 1..Len(bvPending)
  /\ bvPending[i].op = "handleDeleteTable" /\ bvPending[i].ph = "resp"
  /\ LET e == bvPending[i]
         newTables == FilterOutId(e.tables, e.tableId)
         sel == IF e.selectedTable # None /\ e.selectedTable[1].id = e.tableId
                THEN (IF newTables = <<>> THEN None ELSE Some(newTables[1]))
                ELSE selectedTable
     IN IF e.ok /\ e.mounted
        THEN /\ tables' = newTables
             /\ selectedTable' = sel
             /\ RenderTableView(selectedTable, sel)
             /\ GridStep("handleDeleteTable", "ok")
        ELSE /\ GridStep("handleDeleteTable", IF e.ok THEN "unmounted" ELSE "error")
             /\ UNCHANGED <<tables, selectedTable, tvVars>>
  /\ bvPending' = RemoveAt(bvPending, i)
  /\ UNCHANGED <<storeVars, wlVars, bvLoading>>

\* --------------------------------------------------------------- TableView
\* loadData: the backend serves the select on fields
ServeSelectFields(i, ok) ==
  /\ i \in 1..Len(tvPending)
  /\ tvPending[i].op = "loadData" /\ tvPending[i].fres = None
  /\ \E data \in OrderByIndexAsc({f \in db_fields : f.table_id = tvPending[i].tid}) :
       tvPending' = ReplaceAt(tvPending, i,
         [tvPending[i] EXCEPT !.fres = Some(IF ok THEN Some(data) ELSE None)])
  /\ GridStep("loadData", "serveFields")
  /\ UNCHANGED <<storeVars, wlVars, bvVars, fields, records, tvLoading, editingCell, editValue>>

\* loadData: the backend serves the select on records
ServeSelectRecords(i, ok) ==
  /\ i \in 1..Len(tvPending)
  /\ tvPending[i].op = "loadData" /\ tvPending[i].rres = None
  /\ \E data \in OrderByCreatedDesc({r \in db_records : r.table_id = tvPending[i].tid}) :
       tvPending' = ReplaceAt(tvPending, i,
         [tvPending[i] EXCEPT !.rres = Some(IF ok THEN Some(data) ELSE None)])
  /\ GridStep("loadData", "serveRecords")
  /\ UNCHANGED <<storeVars, wlVars, bvVars, fields, records, tvLoading, editingCell, editValue>>

\* loadData after Promise.all
LoadDataDone(i) ==
  /\ i \in 1..Len(tvPending)
  /\ tvPending[i].op = "loadData"
  /\ tvPending[i].fres # None /\ tvPending[i].rres # None
  /\ LET e == tvPending[i]
         fdata == e.fres[1]
         rdata == e.rres[1]
     IN IF e.mounted
        THEN /\ fields' = IF fdata # None THEN fdata[1] ELSE fields
             /\ records' = IF rdata # None THEN rdata[1] ELSE records
             /\ tvLoading' = FALSE
             /\ GridStep("loadData", IF fdata # None /\ rdata # None THEN "ok" ELSE "error")
        ELSE /\ GridStep("loadData", "unmounted")
             /\ UNCHANGED <<fields, records, tvLoading>>
  /\ tvPending' = RemoveAt(tvPending, i)
  /\ UNCHANGED <<storeVars, wlVars, bvVars, editingCell, editValue>>

\* handleAddField up to its await: the two prompts, then the insert is sent
handleAddField(name, type) ==
  /\ TvReady
  /\ IF name = ""
     THEN /\ GridStep("handleAddField", "return")
          /\ UNCHANGED gridVars
     ELSE /\ tvPending' = Append(tvPending,
               TvEntry("handleAddField", selectedTable[1].id, 0,
                       Some([table_id |-> selectedTable[1].id, name |-> name,
                             type |-> IF type = "" THEN "text" ELSE type,
                             order_index |-> Len(fields), required |-> FALSE])))
          /\ GridStep("handleAddField", "issue")
          /\ UNCHANGED <<storeVars, wlVars, bvVars, fields, records, tvLoading, editingCell, editValue>>

\* a backend that numbers the field itself, by the fields the table stores
ServeInsertField_ServerIndex(i, ok) ==
  /\ i \in 1..Len(tvPending)
  /\ tvPending[i].op = "handleAddField" /\ tvPending[i].ph = "sent"
  /\ LET req == tvPending[i].req[1]
         row == [id |-> now + 1, table_id |-> req.table_id, name |-> req.name,
                 type |-> req.type,
                 order_index |-> Cardinality({f \in db_fields : f.table_id = req.table_id}),
                 required |-> req.required, created_at |-> now + 1]
         accepted == /\ ok
                     /\ req.type \in FIELD_TYPES
                     /\ \E t \in db_tables : t.id = req.table_id
     IN IF accepted
        THEN /\ db_fields' = db_fields \cup {row}
             /\ now' = now + 1
             /\ tvPending' = ReplaceAt(tvPending, i,
                  [tvPending[i] EXCEPT !.ph = "resp", !.ok = TRUE, !.row = Some(row)])
        ELSE /\ UNCHANGED <<db_fields, now>>
             /\ tvPending' = ReplaceAt(tvPending, i, [tvPending[i] EXCEPT !.ph = "resp"])
  /\ GridStep("handleAddField", "serve")
  /\ UNCHANGED <<db_bases, db_tables, db_records, wlVars, bvVars, fields, records, tvLoading, editingCell, editValue>>

\* the backend serves the insert into fields: the foreign key on table_id and
\* the CHECK on type can reject it
ServeInsertField(i, ok) ==
  /\ i \in 1..Len(tvPending)
  /\ tvPending[i].op = "handleAddField" /\ tvPending[i].ph = "sent"
  /\ LET req == tvPending[i].req[1]
         row == [id |-> now + 1, table_id |-> req.table_id, name |-> req.name,
                 type |-> req.type, order_index |-> req.order_index,
                 required |-> req.required, created_at |-> now + 1]
         accepted == /\ ok
                     /\ req.type \in FIELD_TYPES
                     /\ \E t \in db_tables : t.id = req.table_id
     IN IF accepted
        THEN /\ db_fields' = db_fields \cup {row}
             /\ now' = now + 1
             /\ tvPending' = ReplaceAt(tvPending, i,
                  [tvPending[i] EXCEPT !.ph = "resp", !.ok = TRUE, !.row = Some(row)])
        ELSE /\ UNCHANGED <<db_fields, now>>
             /\ tvPending' = ReplaceAt(tvPending, i, [tvPending[i] EXCEPT !.ph = "resp"])
  /\ GridStep("handleAddField", "serve")
  /\ UNCHANGED <<db_bases, db_tables, db_records, wlVars, bvVars, fields, records, tvLoading, editingCell, editValue>>

\* handleAddField after its await
AddFieldDone(i) ==
  /\ i \in 1..Len(tvPending)
  /\ tvPending[i].op = "handleAddField" /\ tvPending[i].ph = "resp"
  /\ LET e == tvPending[i]
     IN IF e.ok /\ e.mounted
        THEN /\ fields' = Append(e.fields, e.row[1])
             /\ GridStep("handleAddField", "ok")
        ELSE /\ GridStep("handleAddField", IF e.ok THEN "unmounted" ELSE "error")
             /\ UNCHANGED fields
  /\ tvPending' = RemoveAt(tvPending, i)
  /\ UNCHANGED <<storeVars, wlVars, bvVars, records, tvLoading, editingCell, editValue>>

\* handleDeleteField up to its await; the button is rendered in the header of
\* each field
handleDeleteField(fieldId, confirm) ==
  /\ TvReady
  /\ fieldId \in {fields[j].id : j \in 1..Len(fields)}
  /\ IF ~confirm
     THEN /\ GridStep("handleDeleteField", "return")
          /\ UNCHANGED gridVars
     ELSE /\ tvPending' = Append(tvPending,
               TvEntry("handleDeleteField", selectedTable[1].id, fieldId, None))
          /\ GridStep("handleDeleteField", "issue")
          /\ UNCHANGED <<storeVars, wlVars, bvVars, fields, records, tvLoading, editingCell, editValue>>

\* the backend serves the delete on fields
ServeDeleteField(i, ok) ==
  /\ i \in 1..Len(tvPending)
  /\ tvPending[i].op = "handleDeleteField" /\ tvPending[i].ph = "sent"
  /\ db_fields' = IF ok THEN {f \in db_fields : f.id # tvPending[i].arg} ELSE db_fields
  /\ tvPending' = ReplaceAt(tvPending, i, [tvPending[i] EXCEPT !.ph = "resp", !.ok = ok])
  /\ GridStep("handleDeleteField", "serve")
  /\ UNCHANGED <<db_bases, db_tables, db_records, now, wlVars, bvVars, fields, records, tvLoading, editingCell, editValue>>

\* handleDeleteField dropping the field from the list without a look at the error
DeleteFieldDone_Optimistic(i) ==
  /\ i \in 1..Len(tvPending)
  /\ tvPending[i].op = "handleDeleteField" /\ tvPending[i].ph = "resp"
  /\ LET e == tvPending[i]
     IN IF e.mounted
        THEN /\ fields' = FilterOutId(e.fields, e.arg)
             /\ GridStep("handleDeleteField", IF e.ok THEN "ok" ELSE "error")
        ELSE /\ GridStep("handleDeleteField", "unmounted")
             /\ UNCHANGED fields
  /\ tvPending' = RemoveAt(tvPending, i)
  /\ UNCHANGED <<storeVars, wlVars, bvVars, records, tvLoading, editingCell, editValue>>

\* handleDeleteField after its await
DeleteFieldDone(i) ==
  /\ i \in 1..Len(tvPending)
  /\ tvPending[i].op = "handleDeleteField" /\ tvPending[i].ph = "resp"
  /\ LET e == tvPending[i]
     IN IF e.ok /\ e.mounted
        THEN /\ fields' = FilterOutId(e.fields, e.arg)
             /\ GridStep("handleDeleteField", "ok")
        ELSE /\ GridStep("handleDeleteField", IF e.ok THEN "unmounted" ELSE "error")
             /\ UNCHANGED fields
  /\ tvPending' = RemoveAt(tvPending, i)
  /\ UNCHANGED <<storeVars, wlVars, bvVars, records, tvLoading, editingCell, editValue>>

\* handleAddRecord up to its await
handleAddRecord ==
  /\ TvReady
  /\ tvPending' = Append(tvPending,
       TvEntry("handleAddRecord", selectedTable[1].id, 0,
               Some([table_id |-> selectedTable[1].id, data |-> initialData(fields),
                     created_by |-> user])))
  /\ GridStep("handleAddRecord", "issue")
  /\ UNCHANGED <<storeVars, wlVars, bvVars, fields, records, tvLoading, editingCell, editValue>>

\* the backend serves the insert into records
ServeInsertRecord(i, ok) ==
  /\ i \in 1..Len(tvPending)
  /\ tvPending[i].op = "handleAddRecord" /\ tvPending[i].ph = "sent"
  /\ LET req == tvPending[i].req[1]
         row == [id |-> now + 1, table_id |-> req.table_id, data |-> req.data,
                 created_by |-> req.created_by, created_at |-> now + 1]
         accepted == ok /\ \E t \in db_tables : t.id = req.table_id
     IN IF accepted
        THEN /\ db_records' = db_records \cup {row}
             /\ now' = now + 1
             /\ tvPending' = ReplaceAt(tvPending, i,
                  [tvPending[i] EXCEPT !.ph = "resp", !.ok = TRUE, !.row = Some(row)])
        ELSE /\ UNCHANGED <<db_records, now>>
             /\ tvPending' = ReplaceAt(tvPending, i, [tvPending[i] EXCEPT !.ph = "resp"])
  /\ GridStep("handleAddRecord", "serve")
  /\ UNCHANGED <<db_bases, db_tables, db_fields, wlVars, bvVars, fields, records, tvLoading, editingCell, editValue>>

\* handleAddRecord after its await
AddRecordDone(i) ==
  /\ i \in 1..Len(tvPending)
  /\ tvPending[i].op = "handleAddRecord" /\ tvPending[i].ph = "resp"
  /\ LET e == tvPending[i]
     IN IF e.ok /\ e.mounted
        THEN /\ records' = <<e.row[1]>> \o e.records
             /\ GridStep("handleAddRecord", "ok")
        ELSE /\ GridStep("handleAddRecord", IF e.ok THEN "unmounted" ELSE "error")
             /\ UNCHANGED records
  /\ tvPending' = RemoveAt(tvPending, i)
  /\ UNCHANGED <<storeVars, wlVars, bvVars, fields, tvLoading, editingCell, editValue>>

\* handleDeleteRecord up to its await; the button is rendered in each row
handleDeleteRecord(recordId, confirm) ==
  /\ TvReady
  /\ recordId \in {records[j].id : j \in 1..Len(records)}
  /\ IF ~confirm
     THEN /\ GridStep("handleDeleteRecord", "return")
          /\ UNCHANGED gridVars
     ELSE /\ tvPending' = Append(tvPending,
               TvEntry("handleDeleteRecord", selectedTable[1].id, recordId, None))
          /\ GridStep("handleDeleteRecord", "issue")
          /\ UNCHANGED <<storeVars, wlVars, bvVars, fields, records, tvLoading, editingCell, editValue>>

\* the backend serves the delete on records
ServeDeleteRecord(i, ok) ==
  /\ i \in 1..Len(tvPending)
  /\ tvPending[i].op = "handleDeleteRecord" /\ tvPending[i].ph = "sent"
  /\ db_records' = IF ok THEN {r \in db_records : r.id # tvPending[i].arg} ELSE db_records
  /\ tvPending' = ReplaceAt(tvPending, i, [tvPending[i] EXCEPT !.ph = "resp", !.ok = ok])
  /\ GridStep("handleDeleteRecord", "serve")
  /\ UNCHANGED <<db_bases, db_tables, db_fields, now, wlVars, bvVars, fields, records, tvLoading, editingCell, editValue>>

\* handleDeleteRecord after its await
DeleteRecordDone(i) ==
  /\ i \in 1..Len(tvPending)
  /\ tvPending[i].op = "handleDeleteRecord" /\ tvPending[i].ph = "resp"
  /\ LET e == tvPending[i]
     IN IF e.ok /\ e.mounted
        THEN /\ records' = FilterOutId(e.records, e.arg)
             /\ GridStep("handleDeleteRecord", "ok")
        ELSE /\ GridStep("handleDeleteRecord", IF e.ok THEN "unmounted" ELSE "error")
             /\ UNCHANGED records
  /\ tvPending' = RemoveAt(tvPending, i)
  /\ UNCHANGED <<storeVars, wlVars, bvVars, fields, tvLoading, editingCell, editValue>>

\* handleStartEdit: onClick of a cell that is not being edited
handleStartEdit(recordId, fieldId) ==
  /\ TvReady
  /\ FindById(records, recordId) # None
  /\ FindById(fields, fieldId) # None
  /\ editingCell # Some([recordId |-> recordId, fieldId |-> fieldId])
  /\ editingCell' = Some([recordId |-> recordId, fieldId |-> fieldId])
  /\ editValue' = StartEditText(FindById(records, recordId)[1].data, fieldId)
  /\ GridStep("handleStartEdit", "sync")
  /\ UNCHANGED <<storeVars, wlVars, bvVars, fields, records, tvLoading, tvPending>>

\* onChange of the editor of the cell being edited: setEditValue(e.target.value)
setEditValue(text) ==
  /\ TvReady
  /\ editingCell # None
  /\ FindById(records, editingCell[1].recordId) # None
  /\ FindById(fields, editingCell[1].fieldId) # None
  /\ editValue # text
  /\ editValue' = text
  /\ GridStep("setEditValue", "sync")
  /\ UNCHANGED <<storeVars, wlVars, bvVars, fields, records, tvLoading, editingCell, tvPending>>

\* handleCancelEdit
handleCancelEdit ==
  /\ TvReady
  /\ editingCell # None
  /\ FindById(records, editingCell[1].recordId) # None
  /\ FindById(fields, editingCell[1].fieldId) # None
  /\ editingCell' = None
  /\ editValue' = <<>>
  /\ GridStep("handleCancelEdit", "sync")
  /\ UNCHANGED <<storeVars, wlVars, bvVars, fields, records, tvLoading, tvPending>>

\* handleSaveEdit up to its await; the editor (and its save button) is
\* rendered in the cell named by editingCell
handleSaveEdit ==
  /\ TvReady
  /\ editingCell # None
  /\ LET record == FindById(records, editingCell[1].recordId)
         field == FindById(fields, editingCell[1].fieldId)
     IN /\ record # None
        /\ field # None
        /\ tvPending' = Append(tvPending,
             TvEntry("handleSaveEdit", selectedTable[1].id, editingCell[1].recordId,
                     Some([data |-> newData(record[1].data, editingCell[1].fieldId,
                                            CoerceEdit(field[1].type, editValue))])))
  /\ GridStep("handleSaveEdit", "issue")
  /\ UNCHANGED <<storeVars, wlVars, bvVars, fields, records, tvLoading, editingCell, editValue>>

\* an update that merges the edited key into the stored map
ServeUpdateRecord_Merge(i, ok) ==
  /\ i \in 1..Len(tvPending)
  /\ tvPending[i].op = "handleSaveEdit" /\ tvPending[i].ph = "sent"
  /\ db_records' =
       IF ok THEN {IF r.id = tvPending[i].arg
                   THEN [r EXCEPT !.data =
                           newData(r.data, tvPending[i].editingCell[1].fieldId,
                                   tvPending[i].req[1].data[tvPending[i].editingCell[1].fieldId])]
                   ELSE r : r \in db_records}
       ELSE db_records
  /\ tvPending' = ReplaceAt(tvPending, i, [tvPending[i] EXCEPT !.ph = "resp", !.ok = ok])
  /\ GridStep("handleSaveEdit", "serve")
  /\ UNCHANGED <<db_bases, db_tables, db_fields, now, wlVars, bvVars, fields, records, tvLoading, editingCell, editValue>>

\* the update without its .eq('id', recordId)
ServeUpdateRecord_NoEq(i, ok) ==
  /\ i \in 1..Len(tvPending)
  /\ tvPending[i].op = "handleSaveEdit" /\ tvPending[i].ph = "sent"
  /\ db_records' =
       IF ok THEN {[r EXCEPT !.data = tvPending[i].req[1].data] : r \in db_records}
       ELSE db_records
  /\ tvPending' = ReplaceAt(tvPending, i, [tvPending[i] EXCEPT !.ph = "resp", !.ok = ok])
  /\ GridStep("handleSaveEdit", "serve")
  /\ UNCHANGED <<db_bases, db_tables, db_fields, now, wlVars, bvVars, fields, records, tvLoading, editingCell, editValue>>

\* the backend serves the update of the record's data
ServeUpdateRecord(i, ok) ==
  /\ i \in 1..Len(tvPending)
  /\ tvPending[i].op = "handleSaveEdit" /\ tvPending[i].ph = "sent"
  /\ db_records' =
       IF ok THEN {IF r.id = tvPending[i].arg THEN [r EXCEPT !.data = tvPending[i].req[1].data] ELSE r :
                   r \in db_records}
       ELSE db_records
  /\ tvPending' = ReplaceAt(tvPending, i, [tvPending[i] EXCEPT !.ph = "resp", !.ok = ok])
  /\ GridStep("handleSaveEdit", "serve")
  /\ UNCHANGED <<db_bases, db_tables, db_fields, now, wlVars, bvVars, fields, records, tvLoading, editingCell, editValue>>

\* handleSaveEdit after its await
SaveEditDone(i) ==
  /\ i \in 1..Len(tvPending)
  /\ tvPending[i].op = "handleSaveEdit" /\ tvPending[i].ph = "resp"
  /\ LET e == tvPending[i]
     IN IF e.mounted
        THEN /\ records' = IF e.ok
                           THEN [j \in 1..Len(e.records) |->
                                   IF e.records[j].id = e.arg
                                   THEN [e.records[j] EXCEPT !.data = e.req[1].data]
                                   ELSE e.records[j]]
                           ELSE records
             /\ editingCell' = None
             /\ editValue' = <<>>
             /\ GridStep("handleSaveEdit", IF e.ok THEN "ok" ELSE "error")
        ELSE /\ GridStep("handleSaveEdit", "unmounted")
             /\ UNCHANGED <<records, editingCell, editValue>>
  /\ tvPending' = RemoveAt(tvPending, i)
  /\ UNCHANGED <<storeVars, wlVars, bvVars, fields, tvLoading>>

\* ------------------------------------------------------ a second browser
\* Another browser of the same user shows the same table in its own
\* TableView.  Of that TableView the model keeps what its handlers close
\* over, the lists that its loadData has set; its requests join the requests
\* in flight as requests of a TableView that is not the one on this screen
\* (mounted = FALSE), and its screen is not followed after a request.
PeerEntry(op, cell, text, arg, req) ==
  [op |-> op, ph |-> "sent", mounted |-> FALSE, tid |-> peer[1].tid, fields |-> peer[1].fields,
   records |-> peer[1].records, editingCell |-> cell, editValue |-> text,
   arg |-> arg, req |-> req,
   ok |-> FALSE, row |-> None, fres |-> None, rres |-> None]

\* loadData of the second browser, both selects answered before the next write
PeerLoadData ==
  /\ selectedTable # None
  /\ \E fdata \in OrderByIndexAsc({f \in db_fields : f.table_id = selectedTable[1].id}),
        rdata \in OrderByCreatedDesc({r \in db_records : r.table_id = selectedTable[1].id}) :
       /\ peer # Some([tid |-> selectedTable[1].id, fields |-> fdata, records |-> rdata])
       /\ peer' = Some([tid |-> selectedTable[1].id, fields |-> fdata, records |-> rdata])
  /\ last' = Step("peer.loadData", "ok")
  /\ UNCHANGED <<gridVars, limitVars, builderVars, dashVars, subVars>>

\* handleAddField of the second browser up to its await
PeerAddField(name, type) ==
  /\ peer # None
  /\ name # ""
  /\ tvPending' = Append(tvPending,
       PeerEntry("handleAddField", None, <<>>, 0,
                 Some([table_id |-> peer[1].tid, name |-> name,
                       type |-> IF type = "" THEN "text" ELSE type,
                       order_index |-> Len(peer[1].fields), required |-> FALSE])))
  /\ peer' = None
  /\ last' = Step("peer.handleAddField", "issue")
  /\ UNCHANGED <<storeVars, wlVars, bvVars, fields, records, tvLoading, editingCell, editValue,
                 limitVars, builderVars, dashVars, subVars>>

\* the second browser edits a cell: handleStartEdit, the text typed, and
\* handleSaveEdit up to its await
PeerSaveEdit(recordId, fieldId, text) ==
  /\ peer # None
  /\ LET record == FindById(peer[1].records, recordId)
         field == FindById(peer[1].fields, fieldId)
     IN /\ record # None
        /\ field # None
        /\ tvPending' = Append(tvPending,
             PeerEntry("handleSaveEdit", Some([recordId |-> recordId, fieldId |-> fieldId]),
                       text, recordId,
                       Some([data |-> newData(record[1].data, fieldId,
                                              CoerceEdit(field[1].type, text))])))
  /\ peer' = None
  /\ last' = Step("peer.handleSaveEdit", "issue")
  /\ UNCHANGED <<storeVars, wlVars, bvVars, fields, records, tvLoading, editingCell, editValue,
                 limitVars, builderVars, dashVars, subVars>>

\* the procedure without  AND status != 'archived'
check_user_subscription_limit_CountsArchived(p_user_id, p_limit_type) ==
  LET found == {us \in db_user_subscriptions :
                  us.user_id = p_user_id /\ us.status = "active"}
  IN IF found = {} THEN FALSE
     ELSE LET v_plan == (CHOOSE us \in found : TRUE).plan
          IN IF p_limit_type = "projects"
             THEN LET v_current_count ==
                        Cardinality({p \in db_projects : p.user_id = p_user_id})
                  IN v_plan.max_projects = -1 \/ v_current_count < v_plan.max_projects
             ELSE IF p_limit_type = "bases"
             THEN LET v_current_count ==
                        Cardinality({b \in db_bases :
                                       \E w \in workspaces :
                                         w.id = b.workspace_id /\ w.owner_id = p_user_id})
                  IN v_plan.max_bases = -1 \/ v_current_count < v_plan.max_bases
             ELSE TRUE

\* the procedure comparing with <= where it has <
check_user_subscription_limit_Inclusive(p_user_id, p_limit_type) ==
  LET found == {us \in db_user_subscriptions :
                  us.user_id = p_user_id /\ us.status = "active"}
  IN IF found = {} THEN FALSE
     ELSE LET v_plan == (CHOOSE us \in found : TRUE).plan
          IN IF p_limit_type = "projects"
             THEN LET v_current_count ==
                        Cardinality({p \in db_projects :
                                       p.user_id = p_user_id /\ p.status # "archived"})
                  IN v_plan.max_projects = -1 \/ v_current_count <= v_plan.max_projects
             ELSE IF p_limit_type = "bases"
             THEN LET v_current_count ==
                        Cardinality({b \in db_bases :
                                       \E w \in workspaces :
                                         w.id = b.workspace_id /\ w.owner_id = p_user_id})
                  IN v_plan.max_bases = -1 \/ v_current_count <= v_plan.max_bases
             ELSE TRUE

\* ------------------------------------------------- the subscription gate
\* CREATE FUNCTION check_user_subscription_limit(p_user_id, p_limit_type)
check_user_subscription_limit(p_user_id, p_limit_type) ==
  LET found == {us \in db_user_subscriptions :
                  us.user_id = p_user_id /\ us.status = "active"}
  IN IF found = {} THEN FALSE
     ELSE LET v_plan == (CHOOSE us \in found : TRUE).plan
          IN IF p_limit_type = "projects"
             THEN LET v_current_count ==
                        Cardinality({p \in db_projects :
                                       p.user_id = p_user_id /\ p.status # "archived"})
                  IN v_plan.max_projects = -1 \/ v_current_count < v_plan.max_projects
             ELSE IF p_limit_type = "bases"
             THEN LET v_current_count ==
                        Cardinality({b \in db_bases :
                                       \E w \in workspaces :
                                         w.id = b.workspace_id /\ w.owner_id = p_user_id})
                  IN v_plan.max_bases = -1 \/ v_current_count < v_plan.max_bases
             ELSE TRUE

\* supabase.rpc('check_user_subscription_limit', ...) called directly by a
\* client of the user: the function is served in one step
rpc(p_limit_type) ==
  /\ rpcResult' = Some([limit_type |-> p_limit_type,
                        data |-> check_user_subscription_limit(user, p_limit_type)])
  /\ LimitStep("rpc", "serve")
  /\ UNCHANGED <<gridVars, planVars, activeTab, showBuilder, plVars>>

\* ------------------------------------------------------ EnhancedAppBuilder
\* CHECK (session_type IN (...)) of ai_sessions
SESSION_TYPES == {"discussion", "build"}

\* CHECK (status IN (...)) of change_requests
CHANGE_STATUS == {"pending", "approved", "rejected", "applied"}

\* String.prototype.trim on the texts of the model: blanks go at both ends
RECURSIVE TrimEnd(_)
TrimEnd(t) == IF t # <<>> /\ t[Len(t)] = " " THEN TrimEnd(SubSeq(t, 1, Len(t) - 1)) ELSE t

trim(t) == TrimEnd(SkipWhite(t))

\* String.prototype.substring(0, n)
substring(t, n) == SubSeq(t, 1, IF Len(t) < n THEN Len(t) ELSE n)

\* Math.ceil(n / 4)
CeilDiv4(n) == (n + 3) \div 4

\* id DEFAULT gen_random_uuid() and created_at DEFAULT now() of a table from
\* which nothing is deleted: the rows are numbered as they come
NextId(rows) == Cardinality(rows) + 1

\* the message initSession starts the chat with
initialMessage(m) == [role |-> "assistant", content |-> <<"welcome", m>>]

userMessage(text) == [role |-> "user", content |-> <<"said", text>>]

\* the canned answers of handleSend
assistantMessage(m, text) ==
  IF m = "discussion"
  THEN [role |-> "assistant", content |-> <<"analysis", text>>]
  ELSE [role |-> "assistant", content |-> <<"generated", <<>>>>]

\* an EnhancedAppBuilder handler suspended at an await, with the closure of
\* the render that started it
AbEntry(op, ph, m, arg) ==
  [op |-> op, ph |-> ph, mounted |-> TRUE, mode |-> m, sessionId |-> sessionId,
   messages |-> messages, pendingChanges |-> pendingChanges,
   projectId |-> selectedProjectId, arg |-> arg, ok |-> FALSE, row |-> None]

\* the effects of a render of the builder with the mode m: initSession() up
\* to its await (after setMessages([initialMessage])) and, in discussion
\* mode with a project, loadPendingChanges() up to its await
ModeEffects(q, m, sid, pcs, pid) ==
  LET e(op) == [op |-> op, ph |-> "sent", mounted |-> TRUE, mode |-> m, sessionId |-> sid,
                messages |-> <<initialMessage(m)>>, pendingChanges |-> pcs,
                projectId |-> pid, arg |-> <<>>, ok |-> FALSE, row |-> None]
  IN q \o <<e("initSession")>> \o
     (IF m = "discussion" /\ pid # None THEN <<e("loadPendingChanges")>> ELSE <<>>)

\* Dashboard renders a fresh EnhancedAppBuilder with the given projectId
MountBuilder(pid) ==
  /\ selectedProjectId' = pid
  /\ mode' = "discussion" /\ messages' = <<initialMessage("discussion")>>
  /\ input' = <<>> /\ abLoading' = FALSE /\ sessionId' = None /\ pendingChanges' = <<>>
  /\ abPending' = ModeEffects(Detach(abPending), "discussion", None, <<>>, pid)

UnmountBuilder ==
  /\ selectedProjectId' = None
  /\ mode' = "discussion" /\ messages' = <<>>
  /\ input' = <<>> /\ abLoading' = FALSE /\ sessionId' = None /\ pendingChanges' = <<>>
  /\ abPending' = Detach(abPending)

\* a step of the builder: it holds no reference to the grid, the tabs or
\* ProjectList
BuilderStep(op, ev) ==
  /\ last' = Step(op, ev)
  /\ UNCHANGED <<gridVars, limitVars, selectedProjectId, peer, dashVars,
                 subVars>>

\* the mode buttons of the header: onClick={() => setMode(m)}; a render with
\* a new mode runs the effects on [mode] and on [sessionId, mode]
setMode(m) ==
  /\ showBuilder
  /\ mode' = m
  /\ IF m = mode
     THEN /\ BuilderStep("setMode", "same")
          /\ UNCHANGED <<messages, abPending>>
     ELSE /\ messages' = <<initialMessage(m)>>
          /\ abPending' = ModeEffects(abPending, m, sessionId, pendingChanges, selectedProjectId)
          /\ BuilderStep("setMode", "sync")
  /\ UNCHANGED <<aiVars, input, abLoading, sessionId, pendingChanges>>

\* the backend serves the insert into ai_sessions (.insert().select().single())
ServeInsertSession(i, ok) ==
  /\ i \in 1..Len(abPending)
  /\ abPending[i].op = "initSession" /\ abPending[i].ph = "sent"
  /\ LET e == abPending[i]
         row == [id |-> NextId(db_ai_sessions), project_id |-> e.projectId, user_id |-> user,
                 session_type |-> e.mode, messages |-> <<initialMessage(e.mode)>>,
                 credits_consumed |-> 0, created_at |-> NextId(db_ai_sessions)]
         accepted == /\ ok
                     /\ e.mode \in SESSION_TYPES
                     /\ e.projectId = None \/ \E p \in db_projects : p.id = e.projectId[1]
     IN IF accepted
        THEN /\ db_ai_sessions' = db_ai_sessions \cup {row}
            
             /\ abPending' = ReplaceAt(abPending, i,
                  [e EXCEPT !.ph = "resp", !.ok = TRUE, !.row = Some(row)])
        ELSE /\ UNCHANGED db_ai_sessions
             /\ abPending' = ReplaceAt(abPending, i, [e EXCEPT !.ph = "resp"])
  /\ BuilderStep("initSession", "serve")
  /\ UNCHANGED <<db_change_requests, db_pipeline_stages, db_llm_requests, db_usage_events,
                 mode, messages, input, abLoading, sessionId, pendingChanges>>

\* initSession after its await: if (session) setSessionId(session.id); the
\* render with the new sessionId runs the effect on [sessionId, mode]
InitSessionDone(i) ==
  /\ i \in 1..Len(abPending)
  /\ abPending[i].op = "initSession" /\ abPending[i].ph = "resp"
  /\ LET e == abPending[i]
         rest == RemoveAt(abPending, i)
         load == [AbEntry("loadPendingChanges", "sent", mode, <<>>) EXCEPT
                    !.sessionId = IF e.ok THEN Some(e.row[1].id) ELSE None]
     IN IF e.ok /\ e.mounted
        THEN /\ sessionId' = Some(e.row[1].id)
             /\ abPending' = IF mode = "discussion" /\ selectedProjectId # None
                             THEN Append(rest, load)
                             ELSE rest
             /\ BuilderStep("initSession", "ok")
        ELSE /\ abPending' = rest
             /\ BuilderStep("initSession", IF e.ok THEN "unmounted" ELSE "error")
             /\ UNCHANGED sessionId
  /\ UNCHANGED <<aiVars, mode, messages, input, abLoading, pendingChanges>>

\* loadPendingChanges: the select is served
ServeSelectChanges(i, ok) ==
  /\ i \in 1..Len(abPending)
  /\ abPending[i].op = "loadPendingChanges" /\ abPending[i].ph = "sent"
  /\ \E data \in OrderByCreatedDesc({c \in db_change_requests :
                                       /\ c.project_id = abPending[i].projectId[1]
                                       /\ c.status = "pending"}) :
       abPending' = ReplaceAt(abPending, i,
                      [abPending[i] EXCEPT !.ph = "resp", !.ok = ok,
                                           !.row = IF ok THEN Some(data) ELSE None])
  /\ BuilderStep("loadPendingChanges", "serve")
  /\ UNCHANGED <<aiVars, mode, messages, input, abLoading, sessionId, pendingChanges>>

\* loadPendingChanges after its await: if (data) setPendingChanges(data)
LoadPendingChangesDone(i) ==
  /\ i \in 1..Len(abPending)
  /\ abPending[i].op = "loadPendingChanges" /\ abPending[i].ph = "resp"
  /\ LET e == abPending[i]
     IN IF e.mounted
        THEN /\ pendingChanges' = IF e.row # None THEN e.row[1] ELSE pendingChanges
             /\ BuilderStep("loadPendingChanges", IF e.row # None THEN "ok" ELSE "error")
        ELSE /\ BuilderStep("loadPendingChanges", "unmounted")
             /\ UNCHANGED pendingChanges
  /\ abPending' = RemoveAt(abPending, i)
  /\ UNCHANGED <<aiVars, mode, messages, input, abLoading, sessionId>>

\* onChange of the textarea (disabled while loading): setInput(e.target.value)
setInput(text) ==
  /\ showBuilder /\ ~abLoading
  /\ input # text
  /\ input' = text
  /\ BuilderStep("setInput", "sync")
  /\ UNCHANGED <<aiVars, mode, messages, abLoading, sessionId, pendingChanges, abPending>>

\* handleSend up to its first await; the send button is disabled while
\* loading and for a blank input, and Enter reaches the same guard
handleSend ==
  /\ showBuilder /\ ~abLoading
  /\ IF trim(input) = <<>> \/ sessionId = None
     THEN /\ BuilderStep("handleSend", "return")
          /\ UNCHANGED <<messages, input, abLoading, abPending>>
     ELSE /\ messages' = Append(messages, userMessage(trim(input)))
          /\ input' = <<>>
          /\ abLoading' = TRUE
          /\ abPending' = Append(abPending,
               AbEntry("handleSend", IF mode = "discussion" THEN "timer" ELSE "llm",
                       mode, trim(input)))
          /\ BuilderStep("handleSend", "issue")
  /\ UNCHANGED <<aiVars, mode, sessionId, pendingChanges>>

\* build mode: the backend serves the insert into llm_requests, whose answer
\* handleSend does not read, and the rpc track_usage_event is sent
ServeInsertLlm(i, ok) ==
  /\ i \in 1..Len(abPending)
  /\ abPending[i].op = "handleSend" /\ abPending[i].ph = "llm"
  /\ LET e == abPending[i]
         tokens == CeilDiv4(Len(e.arg))
         row == [id |-> NextId(db_llm_requests), project_id |-> e.projectId, user_id |-> user,
                 prompt_tokens |-> tokens, total_tokens |-> 500 + tokens,
                 status |-> "success", created_at |-> NextId(db_llm_requests)]
     IN IF ok
        THEN db_llm_requests' = db_llm_requests \cup {row}
        ELSE UNCHANGED db_llm_requests
  /\ abPending' = ReplaceAt(abPending, i, [abPending[i] EXCEPT !.ph = "usage"])
  /\ BuilderStep("handleSend", "serveLlm")
  /\ UNCHANGED <<db_ai_sessions, db_change_requests, db_pipeline_stages, db_usage_events,
                 mode, messages, input, abLoading, sessionId, pendingChanges>>

\* build mode: track_usage_event inserts the usage event, and the timer of
\* 2000 ms is started
ServeTrackUsage(i, ok) ==
  /\ i \in 1..Len(abPending)
  /\ abPending[i].op = "handleSend" /\ abPending[i].ph = "usage"
  /\ LET e == abPending[i]
         row == [id |-> NextId(db_usage_events), user_id |-> user, event_type |-> "ai_generation",
                 quantity |-> 1, session_id |-> e.sessionId[1], created_at |-> NextId(db_usage_events)]
     IN IF ok
        THEN db_usage_events' = db_usage_events \cup {row}
        ELSE UNCHANGED db_usage_events
  /\ abPending' = ReplaceAt(abPending, i, [abPending[i] EXCEPT !.ph = "timer"])
  /\ BuilderStep("handleSend", "serveUsage")
  /\ UNCHANGED <<db_ai_sessions, db_change_requests, db_pipeline_stages, db_llm_requests,
                 mode, messages, input, abLoading, sessionId, pendingChanges>>

\* handleSend after the timer: in discussion mode the answer is appended and
\* the update of the session is sent; in build mode the change request is
\* inserted when there is a project, else the update of the session is sent
SendTimerDone(i) ==
  /\ i \in 1..Len(abPending)
  /\ abPending[i].op = "handleSend" /\ abPending[i].ph = "timer"
  /\ LET e == abPending[i]
     IN IF e.mode = "discussion"
        THEN /\ messages' = IF e.mounted
                            THEN Append(messages, assistantMessage("discussion", e.arg))
                            ELSE messages
             /\ abPending' = ReplaceAt(abPending, i, [e EXCEPT !.ph = "update"])
        ELSE /\ abPending' = ReplaceAt(abPending, i,
                  [e EXCEPT !.ph = IF e.projectId # None THEN "change" ELSE "update"])
             /\ UNCHANGED messages
  /\ BuilderStep("handleSend", "timer")
  /\ UNCHANGED <<aiVars, mode, input, abLoading, sessionId, pendingChanges>>

\* the backend serves the insert into change_requests
ServeInsertChange(i, ok) ==
  /\ i \in 1..Len(abPending)
  /\ abPending[i].op = "handleSend" /\ abPending[i].ph = "change"
  /\ LET e == abPending[i]
         row == [id |-> NextId(db_change_requests), session_id |-> e.sessionId[1], project_id |-> e.projectId[1],
                 summary |-> substring(e.arg, 100), status |-> "pending",
                 approved_by |-> None, approved_at |-> None, created_at |-> NextId(db_change_requests)]
         accepted == /\ ok
                     /\ \E s \in db_ai_sessions : s.id = row.session_id
                     /\ \E p \in db_projects : p.id = row.project_id /\ p.user_id = user
     IN IF accepted
        THEN /\ db_change_requests' = db_change_requests \cup {row}
            
             /\ abPending' = ReplaceAt(abPending, i,
                  [e EXCEPT !.ph = "changeResp", !.ok = TRUE, !.row = Some(row)])
        ELSE /\ UNCHANGED db_change_requests
             /\ abPending' = ReplaceAt(abPending, i, [e EXCEPT !.ph = "changeResp"])
  /\ BuilderStep("handleSend", "serveChange")
  /\ UNCHANGED <<db_ai_sessions, db_pipeline_stages, db_llm_requests, db_usage_events,
                 mode, messages, input, abLoading, sessionId, pendingChanges>>

\* handleSend after the insert of the change request: the new row is put in
\* front of the pendingChanges of the closure, the answer is appended and the
\* update of the session is sent
ChangeInserted(i) ==
  /\ i \in 1..Len(abPending)
  /\ abPending[i].op = "handleSend" /\ abPending[i].ph = "changeResp"
  /\ LET e == abPending[i]
     IN IF e.mounted
        THEN /\ pendingChanges' = IF e.ok THEN <<e.row[1]>> \o e.pendingChanges
                                  ELSE pendingChanges
             /\ messages' = Append(messages, assistantMessage("build", e.arg))
             /\ BuilderStep("handleSend", IF e.ok THEN "changeOk" ELSE "changeError")
        ELSE /\ BuilderStep("handleSend", "unmounted")
             /\ UNCHANGED <<pendingChanges, messages>>
  /\ abPending' = ReplaceAt(abPending, i, [abPending[i] EXCEPT !.ph = "update", !.ok = FALSE])
  /\ UNCHANGED <<aiVars, mode, input, abLoading, sessionId>>

\* the backend serves update({ messages, credits_consumed }).eq('id', sessionId)
ServeUpdateSession(i, ok) ==
  /\ i \in 1..Len(abPending)
  /\ abPending[i].op = "handleSend" /\ abPending[i].ph = "update"
  /\ LET e == abPending[i]
     IN db_ai_sessions' =
          IF ok
          THEN {IF s.id = e.sessionId[1]
                THEN [s EXCEPT !.messages = Append(e.messages, userMessage(e.arg)),
                               !.credits_consumed = IF e.mode = "build" THEN 1 ELSE 0]
                ELSE s : s \in db_ai_sessions}
          ELSE db_ai_sessions
  /\ abPending' = ReplaceAt(abPending, i, [abPending[i] EXCEPT !.ph = "updated", !.ok = ok])
  /\ BuilderStep("handleSend", "serveUpdate")
  /\ UNCHANGED <<db_change_requests, db_pipeline_stages, db_llm_requests, db_usage_events,
                 mode, messages, input, abLoading, sessionId, pendingChanges>>

\* handleSend: finally { setLoading(false) }
SendDone(i) ==
  /\ i \in 1..Len(abPending)
  /\ abPending[i].op = "handleSend" /\ abPending[i].ph = "updated"
  /\ LET e == abPending[i]
     IN IF e.mounted
        THEN /\ abLoading' = FALSE
             /\ BuilderStep("handleSend", IF e.ok THEN "ok" ELSE "error")
        ELSE /\ BuilderStep("handleSend", "doneUnmounted")
             /\ UNCHANGED abLoading
  /\ abPending' = RemoveAt(abPending, i)
  /\ UNCHANGED <<aiVars, mode, messages, input, sessionId, pendingChanges>>

\* the panel of pending changes is rendered in build mode for a non-empty list
ChangesShown == showBuilder /\ mode = "build" /\ pendingChanges # <<>>

\* handleApproveChange up to its await
handleApproveChange(changeId) ==
  /\ ChangesShown
  /\ FindById(pendingChanges, changeId) # None
  /\ abPending' = Append(abPending, AbEntry("handleApproveChange", "sent", mode, changeId))
  /\ BuilderStep("handleApproveChange", "issue")
  /\ UNCHANGED <<aiVars, mode, messages, input, abLoading, sessionId, pendingChanges>>

\* the update of handleApproveChange without its .eq('id', changeId)
ServeApproveChange_NoEq(i, ok) ==
  /\ i \in 1..Len(abPending)
  /\ abPending[i].op = "handleApproveChange" /\ abPending[i].ph = "sent"
  /\ db_change_requests' =
       IF ok
       THEN {[c EXCEPT !.status = "approved", !.approved_by = Some(user),
                       !.approved_at = Some("now")] : c \in db_change_requests}
       ELSE db_change_requests
  /\ abPending' = ReplaceAt(abPending, i, [abPending[i] EXCEPT !.ph = "resp", !.ok = ok])
  /\ BuilderStep("handleApproveChange", "serve")
  /\ UNCHANGED <<db_ai_sessions, db_pipeline_stages, db_llm_requests, db_usage_events,
                 mode, messages, input, abLoading, sessionId, pendingChanges>>

\* the backend serves update({ status: 'approved', approved_by, approved_at })
\* .eq('id', changeId)
ServeApproveChange(i, ok) ==
  /\ i \in 1..Len(abPending)
  /\ abPending[i].op = "handleApproveChange" /\ abPending[i].ph = "sent"
  /\ db_change_requests' =
       IF ok
       THEN {IF c.id = abPending[i].arg
             THEN [c EXCEPT !.status = "approved", !.approved_by = Some(user),
                            !.approved_at = Some("now")]
             ELSE c : c \in db_change_requests}
       ELSE db_change_requests
  /\ abPending' = ReplaceAt(abPending, i, [abPending[i] EXCEPT !.ph = "resp", !.ok = ok])
  /\ BuilderStep("handleApproveChange", "serve")
  /\ UNCHANGED <<db_ai_sessions, db_pipeline_stages, db_llm_requests, db_usage_events,
                 mode, messages, input, abLoading, sessionId, pendingChanges>>

\* handleApproveChange after its await: the change leaves the list of the
\* closure and, with a project, the insert into pipeline_stages is sent
ApproveChangeDone(i) ==
  /\ i \in 1..Len(abPending)
  /\ abPending[i].op = "handleApproveChange" /\ abPending[i].ph = "resp"
  /\ LET e == abPending[i]
     IN IF e.ok
        THEN /\ pendingChanges' = IF e.mounted THEN FilterOutId(e.pendingChanges, e.arg)
                                  ELSE pendingChanges
             /\ abPending' = IF e.projectId # None
                             THEN ReplaceAt(abPending, i, [e EXCEPT !.ph = "pipeline"])
                             ELSE RemoveAt(abPending, i)
             /\ BuilderStep("handleApproveChange", IF e.mounted THEN "ok" ELSE "unmounted")
        ELSE /\ abPending' = RemoveAt(abPending, i)
             /\ BuilderStep("handleApproveChange", "error")
             /\ UNCHANGED pendingChanges
  /\ UNCHANGED <<aiVars, mode, messages, input, abLoading, sessionId>>

\* the backend serves the insert into pipeline_stages; nothing follows the
\* await, so the handler ends here.  The policies of the migration give the
\* client only SELECT on pipeline_stages, so with the anon key the answer is
\* the refusal (ok = FALSE).
ServeInsertPipeline(i, ok) ==
  /\ i \in 1..Len(abPending)
  /\ abPending[i].op = "handleApproveChange" /\ abPending[i].ph = "pipeline"
  /\ LET e == abPending[i]
         row == [id |-> NextId(db_pipeline_stages), project_id |-> e.projectId[1], stage_name |-> "code",
                 agent_type |-> "coder", status |-> "running", created_at |-> NextId(db_pipeline_stages)]
     IN IF ok /\ \E p \in db_projects : p.id = row.project_id
        THEN db_pipeline_stages' = db_pipeline_stages \cup {row}
        ELSE UNCHANGED db_pipeline_stages
  /\ abPending' = RemoveAt(abPending, i)
  /\ BuilderStep("handleApproveChange", "servePipeline")
  /\ UNCHANGED <<db_ai_sessions, db_change_requests, db_llm_requests, db_usage_events,
                 mode, messages, input, abLoading, sessionId, pendingChanges>>

\* handleRejectChange up to its await
handleRejectChange(changeId) ==
  /\ ChangesShown
  /\ FindById(pendingChanges, changeId) # None
  /\ abPending' = Append(abPending, AbEntry("handleRejectChange", "sent", mode, changeId))
  /\ BuilderStep("handleRejectChange", "issue")
  /\ UNCHANGED <<aiVars, mode, messages, input, abLoading, sessionId, pendingChanges>>

\* the update of handleRejectChange without its .eq('id', changeId)
ServeRejectChange_NoEq(i, ok) ==
  /\ i \in 1..Len(abPending)
  /\ abPending[i].op = "handleRejectChange" /\ abPending[i].ph = "sent"
  /\ db_change_requests' =
       IF ok THEN {[c EXCEPT !.status = "rejected"] : c \in db_change_requests}
       ELSE db_change_requests
  /\ abPending' = ReplaceAt(abPending, i, [abPending[i] EXCEPT !.ph = "resp", !.ok = ok])
  /\ BuilderStep("handleRejectChange", "serve")
  /\ UNCHANGED <<db_ai_sessions, db_pipeline_stages, db_llm_requests, db_usage_events,
                 mode, messages, input, abLoading, sessionId, pendingChanges>>

\* the backend serves update({ status: 'rejected' }).eq('id', changeId)
ServeRejectChange(i, ok) ==
  /\ i \in 1..Len(abPending)
  /\ abPending[i].op = "handleRejectChange" /\ abPending[i].ph = "sent"
  /\ db_change_requests' =
       IF ok
       THEN {IF c.id = abPending[i].arg THEN [c EXCEPT !.status = "rejected"] ELSE c :
             c \in db_change_requests}
       ELSE db_change_requests
  /\ abPending' = ReplaceAt(abPending, i, [abPending[i] EXCEPT !.ph = "resp", !.ok = ok])
  /\ BuilderStep("handleRejectChange", "serve")
  /\ UNCHANGED <<db_ai_sessions, db_pipeline_stages, db_llm_requests, db_usage_events,
                 mode, messages, input, abLoading, sessionId, pendingChanges>>

\* handleRejectChange after its await
RejectChangeDone(i) ==
  /\ i \in 1..Len(abPending)
  /\ abPending[i].op = "handleRejectChange" /\ abPending[i].ph = "resp"
  /\ LET e == abPending[i]
     IN IF e.ok /\ e.mounted
        THEN /\ pendingChanges' = FilterOutId(e.pendingChanges, e.arg)
             /\ BuilderStep("handleRejectChange", "ok")
        ELSE /\ BuilderStep("handleRejectChange", IF e.ok THEN "unmounted" ELSE "error")
             /\ UNCHANGED pendingChanges
  /\ abPending' = RemoveAt(abPending, i)
  /\ UNCHANGED <<aiVars, mode, messages, input, abLoading, sessionId>>

\* ------------------------------------------------------------- ProjectList
\* ProjectList is rendered by Dashboard on the 'projects' tab while neither
\* the builder nor a base is open
PlMounted == ~showBuilder /\ selectedBase = None /\ activeTab = "projects"

\* the list and its buttons are rendered (not the spinner) and take clicks
PlReady == PlMounted /\ ~plLoading

PlEntry(op, closure, arg) ==
  [op |-> op, ph |-> "sent", mounted |-> TRUE, projects |-> closure, arg |-> arg,
   ok |-> FALSE, data |-> None]

\* the effect on [workspaceId] of a fresh ProjectList: loadProjects() up to
\* its await, then checkLimits() up to its await
MountProjectList ==
  /\ projects' = <<>> /\ plLoading' = TRUE /\ canCreateMore' = TRUE
  /\ plPending' = Detach(plPending) \o <<PlEntry("loadProjects", <<>>, 0), PlEntry("checkLimits", <<>>, 0)>>

UnmountProjectList ==
  /\ projects' = <<>> /\ plLoading' = TRUE /\ canCreateMore' = TRUE
  /\ plPending' = Detach(plPending)

MountWorkspaceList ==
  /\ bases' = <<>> /\ wlLoading' = TRUE
  /\ wlPending' = Append(Detach(wlPending), LoadBasesEntry)

UnmountWorkspaceList ==
  /\ bases' = <<>> /\ wlLoading' = TRUE
  /\ wlPending' = Detach(wlPending)

\* the tab bar of Dashboard: onClick={() => setActiveTab(tab)}
setActiveTab(tab) ==
  /\ ~showBuilder /\ selectedBase = None
  /\ activeTab' = tab
  /\ IF tab = activeTab
     THEN UNCHANGED <<plVars, bases, wlLoading, wlPending>>
     ELSE /\ IF tab = "projects" THEN MountProjectList
             ELSE IF activeTab = "projects" THEN UnmountProjectList
             ELSE UNCHANGED plVars
          /\ IF tab = "bases" THEN MountWorkspaceList
             ELSE IF activeTab = "bases" THEN UnmountWorkspaceList
             ELSE UNCHANGED <<bases, wlLoading, wlPending>>
  /\ LimitStep("setActiveTab", "sync")
  /\ UNCHANGED <<storeVars, selectedBase, bvVars, tvVars, planVars, showBuilder, rpcResult>>

\* loadProjects: the select is served
ServeLoadProjects(i, ok) ==
  /\ i \in 1..Len(plPending)
  /\ plPending[i].op = "loadProjects" /\ plPending[i].ph = "sent"
  /\ \E data \in OrderByCreatedDesc({p \in db_projects :
                                       p.workspace_id = workspace.id /\ p.user_id = user}) :
       plPending' = ReplaceAt(plPending, i,
                      [plPending[i] EXCEPT !.ph = "resp", !.ok = ok,
                                           !.data = IF ok THEN Some(data) ELSE None])
  /\ LimitStep("loadProjects", "serve")
  /\ UNCHANGED <<gridVars, planVars, activeTab, showBuilder, projects, plLoading,
                 canCreateMore, rpcResult>>

\* loadProjects after its await: if (data) setProjects(data); setLoading(false)
LoadProjectsDone(i) ==
  /\ i \in 1..Len(plPending)
  /\ plPending[i].op = "loadProjects" /\ plPending[i].ph = "resp"
  /\ LET e == plPending[i]
     IN IF e.mounted
        THEN /\ projects' = IF e.data # None THEN e.data[1] ELSE projects
             /\ plLoading' = FALSE
             /\ LimitStep("loadProjects", IF e.data # None THEN "ok" ELSE "error")
        ELSE /\ LimitStep("loadProjects", "unmounted")
             /\ UNCHANGED <<projects, plLoading>>
  /\ plPending' = RemoveAt(plPending, i)
  /\ UNCHANGED <<gridVars, planVars, activeTab, showBuilder, canCreateMore, rpcResult>>

\* checkLimits: the rpc is served; on an error data is null
ServeCheckLimits(i, ok) ==
  /\ i \in 1..Len(plPending)
  /\ plPending[i].op = "checkLimits" /\ plPending[i].ph = "sent"
  /\ plPending' = ReplaceAt(plPending, i,
       [plPending[i] EXCEPT
          !.ph = "resp", !.ok = ok,
          !.data = IF ok THEN Some(check_user_subscription_limit(user, "projects"))
                   ELSE None])
  /\ LimitStep("checkLimits", "serve")
  /\ UNCHANGED <<gridVars, planVars, activeTab, showBuilder, projects, plLoading,
                 canCreateMore, rpcResult>>

\* checkLimits after its await: setCanCreateMore(data === true)
CheckLimitsDone(i) ==
  /\ i \in 1..Len(plPending)
  /\ plPending[i].op = "checkLimits" /\ plPending[i].ph = "resp"
  /\ LET e == plPending[i]
     IN IF e.mounted
        THEN /\ canCreateMore' = (e.data = Some(TRUE))
             /\ LimitStep("checkLimits", IF e.ok THEN "ok" ELSE "error")
        ELSE /\ LimitStep("checkLimits", "unmounted")
             /\ UNCHANGED canCreateMore
  /\ plPending' = RemoveAt(plPending, i)
  /\ UNCHANGED <<gridVars, planVars, activeTab, showBuilder, projects, plLoading, rpcResult>>

\* handleCreateProject: the alert when the limit was reached, else
\* onOpenBuilder(), on which Dashboard renders the builder in place of the tabs
handleCreateProject ==
  /\ PlReady
  /\ IF ~canCreateMore
     THEN /\ LimitStep("handleCreateProject", "return")
          /\ UNCHANGED <<showBuilder, plVars>>
     ELSE /\ showBuilder' = TRUE
          /\ UnmountProjectList
          /\ MountBuilder(None)
          /\ last' = Step("handleCreateProject", "onOpenBuilder")
          /\ UNCHANGED <<aiVars, peer, dashVars, subVars>>
  /\ UNCHANGED <<gridVars, planVars, activeTab, rpcResult>>

\* a project card: onClick={() => onOpenBuilder(project.id)}
onOpenBuilder(j) ==
  /\ PlReady
  /\ j \in 1..Len(projects)
  /\ showBuilder' = TRUE
  /\ UnmountProjectList
  /\ MountBuilder(Some(projects[j].id))
  /\ last' = Step("onOpenBuilder", "sync")
  /\ UNCHANGED <<aiVars, peer, dashVars, subVars>>
  /\ UNCHANGED <<gridVars, planVars, activeTab, rpcResult>>

\* onBack of the builder: setShowBuilder(false) and
\* setSelectedProjectId(undefined), and Dashboard renders the 'projects' tab
\* with a fresh ProjectList
closeBuilder ==
  /\ showBuilder
  /\ showBuilder' = FALSE
  /\ UnmountBuilder
  /\ MountProjectList
  /\ last' = Step("closeBuilder", "sync")
  /\ UNCHANGED <<aiVars, peer, dashVars, subVars>>
  /\ UNCHANGED <<gridVars, planVars, activeTab, rpcResult>>

\* handleArchiveProject without the return after a declined confirm
handleArchiveProject_NoConfirm(projectId, confirm) ==
  /\ PlReady
  /\ \E j \in 1..Len(projects) : projects[j].id = projectId
  /\ plPending' = Append(plPending, PlEntry("handleArchiveProject", projects, projectId))
  /\ LimitStep("handleArchiveProject", IF confirm THEN "issue" ELSE "return")
  /\ UNCHANGED <<gridVars, planVars, activeTab, showBuilder, projects, plLoading,
                 canCreateMore, rpcResult>>

\* handleArchiveProject up to its await: confirm, then the update is sent
handleArchiveProject(projectId, confirm) ==
  /\ PlReady
  /\ \E j \in 1..Len(projects) : projects[j].id = projectId
  /\ IF ~confirm
     THEN /\ LimitStep("handleArchiveProject", "return")
          /\ UNCHANGED plPending
     ELSE /\ plPending' = Append(plPending, PlEntry("handleArchiveProject", projects, projectId))
          /\ LimitStep("handleArchiveProject", "issue")
  /\ UNCHANGED <<gridVars, planVars, activeTab, showBuilder, projects, plLoading,
                 canCreateMore, rpcResult>>

\* the backend serves update({ status: 'archived' }).eq('id', projectId)
ServeArchiveProject(i, ok) ==
  /\ i \in 1..Len(plPending)
  /\ plPending[i].op = "handleArchiveProject" /\ plPending[i].ph = "sent"
  /\ db_projects' = IF ok
                    THEN {IF p.id = plPending[i].arg THEN [p EXCEPT !.status = "archived"] ELSE p :
                            p \in db_projects}
                    ELSE db_projects
  /\ plPending' = ReplaceAt(plPending, i, [plPending[i] EXCEPT !.ph = "resp", !.ok = ok])
  /\ LimitStep("handleArchiveProject", "serve")
  /\ UNCHANGED <<gridVars, db_user_subscriptions, activeTab, showBuilder, projects,
                 plLoading, canCreateMore, rpcResult>>

\* handleArchiveProject after its await: setProjects(projects.map(...)) and
\* checkLimits() up to its await
ArchiveProjectDone(i) ==
  /\ i \in 1..Len(plPending)
  /\ plPending[i].op = "handleArchiveProject" /\ plPending[i].ph = "resp"
  /\ LET e == plPending[i]
     IN IF e.ok
        THEN /\ projects' = IF e.mounted
                            THEN [j \in 1..Len(e.projects) |->
                                    IF e.projects[j].id = e.arg
                                    THEN [e.projects[j] EXCEPT !.status = "archived"]
                                    ELSE e.projects[j]]
                            ELSE projects
             /\ plPending' = Append(RemoveAt(plPending, i),
                                    [PlEntry("checkLimits", <<>>, 0) EXCEPT !.mounted = e.mounted])
             /\ LimitStep("handleArchiveProject", IF e.mounted THEN "ok" ELSE "unmounted")
        ELSE /\ plPending' = RemoveAt(plPending, i)
             /\ LimitStep("handleArchiveProject", "error")
             /\ UNCHANGED projects
  /\ UNCHANGED <<gridVars, planVars, activeTab, showBuilder, plLoading, canCreateMore, rpcResult>>

\* ---------------------------------------------------------------- AppBuilder
\* handleSend of AppBuilder without a projectId: the insert into projects, for
\* the workspace of the first membership that getDefaultWorkspace finds
AppBuilderInsertProject(workspace_id, ok) ==
  /\ workspace_id \in {w.id : w \in workspaces}
  /\ IF ok
     THEN /\ db_projects' = db_projects \cup
               {[id |-> now + 1, user_id |-> user, workspace_id |-> workspace_id,
                 status |-> "active", created_at |-> now + 1]}
          /\ now' = now + 1
     ELSE UNCHANGED <<db_projects, now>>
  /\ LimitStep("AppBuilder.handleSend", IF ok THEN "ok" ELSE "error")
  /\ UNCHANGED <<db_bases, db_tables, db_fields, db_records, wlVars, bvVars, tvVars,
                 db_user_subscriptions, activeTab, showBuilder, plVars, rpcResult>>

\* ----------------------------------------- SubscriptionManager, UsageStats
\* a step of the 'subscription' tab or of the usage panel
SubStep(op, ev) ==
  last' = Step(op, ev) /\ UNCHANGED <<gridVars, limitVars, builderVars, peer, dashVars>>

\* the rows of subscription_plans: the seeded plans and the plan of every
\* stored subscription
StoredPlans == subscription_plans \cup {us.plan : us \in db_user_subscriptions}

\* .order('price_monthly', { ascending: true })
OrderByPriceAsc(S) ==
  {s \in Perms(S) : \A i, j \in 1..Len(s) : i < j => s[i].price_monthly <= s[j].price_monthly}

\* the characters of Number.prototype.toString for an integer
DigitChars == <<"0", "1", "2", "3", "4", "5", "6", "7", "8", "9">>
RECURSIVE Digits(_)
Digits(n) ==
  IF n < 10 THEN <<DigitChars[n + 1]>> ELSE Digits(n \div 10) \o <<DigitChars[(n % 10) + 1]>>
numberToString(n) == IF n < 0 THEN <<"-">> \o Digits(-n) ELSE Digits(n)

\* Number.prototype.toLocaleString: the digits in groups of three
RECURSIVE Grouped(_)
Grouped(ds) ==
  IF Len(ds) <= 3 THEN ds
  ELSE Grouped(SubSeq(ds, 1, Len(ds) - 3)) \o <<",">> \o SubSeq(ds, Len(ds) - 2, Len(ds))
toLocaleString(n) == IF n < 0 THEN <<"-">> \o Grouped(Digits(-n)) ELSE Grouped(Digits(n))

\* UsageStats.formatLimit
formatLimit(limit) == IF limit = -1 THEN <<"Unlimited">> ELSE toLocaleString(limit)

\* UsageStats.getUsagePercentage, rounded down to a whole per cent; a limit
\* of 0 is left out of the inputs
getUsagePercentage(current, limit) ==
  IF limit = -1 THEN 0
  ELSE LET percentage == (current * 100) \div limit
       IN IF percentage < 100 THEN percentage ELSE 100

\* UsageStats.getUsageColor
getUsageColor(percentage) ==
  IF percentage >= 90 THEN "bg-red-500"
  ELSE IF percentage >= 70 THEN "bg-amber-500" ELSE "bg-green-500"

\* the four limit lines of a plan card of SubscriptionManager
PlanCard(plan) ==
  <<(IF plan.max_projects = -1 THEN <<"Unlimited">> ELSE numberToString(plan.max_projects))
      \o <<" project">> \o (IF plan.max_projects # 1 THEN <<"s">> ELSE <<>>),
    (IF plan.max_bases = -1 THEN <<"Unlimited">> ELSE numberToString(plan.max_bases))
      \o <<" bases">>,
    (IF plan.max_records_per_base = -1 THEN <<"Unlimited">>
     ELSE toLocaleString(plan.max_records_per_base)) \o <<" records per base">>,
    numberToString(plan.max_storage_mb) \o <<"MB storage">>>>

\* a row of the usage panel: its text and, unless the limit is -1, its bar
UsageRow(u, unit) ==
  [text |-> numberToString(u.current) \o unit \o <<" / ">> \o formatLimit(u.limit) \o unit,
   bar |-> IF u.limit # -1
           THEN Some([width |-> getUsagePercentage(u.current, u.limit),
                      color |-> getUsageColor(getUsagePercentage(u.current, u.limit))])
           ELSE None]

\* the rows that UsageStats renders: projects, bases and storage
UsagePanel(u) ==
  <<UsageRow(u.projects, <<>>), UsageRow(u.bases, <<>>), UsageRow(u.storage, <<"MB">>)>>

\* SubscriptionManager.loadSubscriptionData: both selects of the Promise.all
\* are answered, then the plans, the subscription and its plan are set
loadSubscriptionData(plansOk, subOk) ==
  /\ activeTab = "subscription"
  /\ LET plansData == IF plansOk THEN Some(CHOOSE d \in OrderByPriceAsc(StoredPlans) : TRUE)
                      ELSE None
         mine == {us \in db_user_subscriptions : us.user_id = user}
         subData == IF subOk /\ mine # {} THEN Some(CHOOSE us \in mine : TRUE) ELSE None
     IN /\ plans' = IF plansData # None THEN plansData[1] ELSE plans
        /\ currentSubscription' = IF subData # None THEN subData ELSE currentSubscription
        /\ currentPlan' =
             IF subData # None
             THEN IF plansData # None
                     /\ \E j \in 1..Len(plansData[1]) :
                          plansData[1][j].name = subData[1].plan.name
                  THEN Some(subData[1].plan)
                  ELSE None
             ELSE currentPlan
  /\ smLoading' = FALSE
  /\ SubStep("loadSubscriptionData", IF plansOk /\ subOk THEN "ok" ELSE "error")
  /\ UNCHANGED <<usage, usLoading>>

\* UsageStats.loadUsageData: the subscription, its plan and the three counts
\* are selected and the usage is set; without a subscription or a plan the
\* usage stays as it is
loadUsageData(subOk, planOk, countOk) ==
  /\ activeTab = "dashboard"
  /\ LET mine == {us \in db_user_subscriptions : us.user_id = user}
         plan == IF subOk /\ planOk /\ mine # {} THEN Some((CHOOSE us \in mine : TRUE).plan)
                 ELSE None
         projectsCount ==
           IF countOk
           THEN Cardinality({q \in db_projects : q.user_id = user /\ q.status # "archived"})
           ELSE 0
         basesCount ==
           IF countOk
           THEN Cardinality({w \in workspaces :
                               /\ w.owner_id = user
                               /\ \E b \in db_bases : b.workspace_id = w.id})
           ELSE 0
         recordsCount == IF countOk THEN Cardinality(db_records) ELSE 0
     IN IF plan # None
        THEN /\ usage' = Some([projects |-> [current |-> projectsCount,
                                             limit |-> plan[1].max_projects],
                               bases |-> [current |-> basesCount, limit |-> plan[1].max_bases],
                               records |-> [current |-> recordsCount,
                                            limit |-> plan[1].max_records_per_base],
                               storage |-> [current |-> 0, limit |-> plan[1].max_storage_mb]])
             /\ SubStep("loadUsageData", "ok")
        ELSE /\ UNCHANGED usage
             /\ SubStep("loadUsageData", "return")
  /\ usLoading' = FALSE
  /\ UNCHANGED <<plans, currentSubscription, currentPlan, smLoading>>

\* neither SubscriptionManager nor UsageStats has loaded
SubscriptionTabFresh ==
  /\ plans = <<>> /\ currentSubscription = None /\ currentPlan = None /\ smLoading = TRUE
  /\ usage = None /\ usLoading = TRUE

\* ---------------------------------------------------------------- Dashboard
\* a step of Dashboard's loadWorkspaces, which runs before any tab is shown
DashStep(op, ev) ==
  last' = Step(op, ev) /\ UNCHANGED <<gridVars, limitVars, builderVars, peer, subVars>>

\* a loadWorkspaces run suspended at an await, with the selectedWorkspace of
\* the render that started it
DashEntry(ph) ==
  [op |-> "loadWorkspaces", ph |-> ph, selectedWorkspace |-> selectedWorkspace,
   ok |-> FALSE, ids |-> {}, row |-> None]

\* the effect on [user]: loadWorkspaces up to the select of the memberships
loadWorkspaces ==
  /\ dashLoading' = TRUE
  /\ dashPending' = Append(dashPending, DashEntry("memberships"))
  /\ DashStep("loadWorkspaces", "issue")
  /\ UNCHANGED <<db_workspaces, db_workspace_members, dashWorkspaces, selectedWorkspace>>

\* the backend serves select('workspace_id').eq('user_id', user.id) on
\* workspace_members; a failed request leaves memberships null
ServeSelectMemberships(i, ok) ==
  /\ i \in 1..Len(dashPending)
  /\ dashPending[i].ph = "memberships"
  /\ dashPending' = ReplaceAt(dashPending, i,
       [dashPending[i] EXCEPT
          !.ph = "membershipsResp", !.ok = ok,
          !.ids = IF ok
                  THEN {m.workspace_id : m \in {x \in db_workspace_members : x.user_id = user}}
                  ELSE {}])
  /\ DashStep("loadWorkspaces", "serveMemberships")
  /\ UNCHANGED <<db_workspaces, db_workspace_members, dashWorkspaces, selectedWorkspace,
                 dashLoading>>

\* loadWorkspaces after the memberships: with memberships the workspaces are
\* selected, and without any (or without an answer) createDefaultWorkspace
\* sends its insert
MembershipsLoaded(i) ==
  /\ i \in 1..Len(dashPending)
  /\ dashPending[i].ph = "membershipsResp"
  /\ LET e == dashPending[i]
     IN dashPending' = ReplaceAt(dashPending, i,
          [e EXCEPT !.ph = IF e.ok /\ e.ids # {} THEN "workspaces" ELSE "insert", !.ok = FALSE])
  /\ DashStep("loadWorkspaces", "memberships")
  /\ UNCHANGED <<db_workspaces, db_workspace_members, dashWorkspaces, selectedWorkspace,
                 dashLoading>>

\* the backend serves select('*').in('id', workspaceIds).order('created_at',
\* { ascending: false }) on workspaces
ServeSelectWorkspaces(i, ok) ==
  /\ i \in 1..Len(dashPending)
  /\ dashPending[i].ph = "workspaces"
  /\ \E data \in OrderByCreatedDesc({w \in db_workspaces : w.id \in dashPending[i].ids}) :
       dashPending' = ReplaceAt(dashPending, i,
         [dashPending[i] EXCEPT !.ph = "workspacesResp", !.ok = ok,
                                !.row = IF ok THEN Some(data) ELSE None])
  /\ DashStep("loadWorkspaces", "serveWorkspaces")
  /\ UNCHANGED <<db_workspaces, db_workspace_members, dashWorkspaces, selectedWorkspace,
                 dashLoading>>

\* loadWorkspaces after the workspaces: if (data) { setWorkspaces(data); if
\* (!selectedWorkspace && data.length > 0) setSelectedWorkspace(data[0]) },
\* then setLoading(false)
WorkspacesLoaded(i) ==
  /\ i \in 1..Len(dashPending)
  /\ dashPending[i].ph = "workspacesResp"
  /\ LET e == dashPending[i]
     IN IF e.row # None
        THEN /\ dashWorkspaces' = e.row[1]
             /\ selectedWorkspace' = IF e.selectedWorkspace = None /\ Len(e.row[1]) > 0
                                     THEN Some(e.row[1][1])
                                     ELSE selectedWorkspace
             /\ DashStep("loadWorkspaces", "ok")
        ELSE /\ DashStep("loadWorkspaces", "error")
             /\ UNCHANGED <<dashWorkspaces, selectedWorkspace>>
  /\ dashLoading' = FALSE
  /\ dashPending' = RemoveAt(dashPending, i)
  /\ UNCHANGED <<db_workspaces, db_workspace_members>>

\* createDefaultWorkspace: the backend serves insert({ name: 'My Workspace',
\* owner_id: user.id }).select().single() on workspaces
ServeInsertWorkspace(i, ok) ==
  /\ i \in 1..Len(dashPending)
  /\ dashPending[i].ph = "insert"
  /\ LET row == [id |-> NextId(db_workspaces), name |-> "My Workspace", owner_id |-> user,
                 created_at |-> NextId(db_workspaces)]
     IN IF ok
        THEN /\ db_workspaces' = db_workspaces \cup {row}
             /\ dashPending' = ReplaceAt(dashPending, i,
                  [dashPending[i] EXCEPT !.ph = "insertResp", !.ok = TRUE, !.row = Some(row)])
        ELSE /\ UNCHANGED db_workspaces
             /\ dashPending' = ReplaceAt(dashPending, i,
                  [dashPending[i] EXCEPT !.ph = "insertResp"])
  /\ DashStep("createDefaultWorkspace", "serve")
  /\ UNCHANGED <<db_workspace_members, dashWorkspaces, selectedWorkspace, dashLoading>>

\* createDefaultWorkspace after its insert: if (!error && workspace) the
\* insert of the membership is sent; otherwise loadWorkspaces ends with
\* setLoading(false)
WorkspaceInserted(i) ==
  /\ i \in 1..Len(dashPending)
  /\ dashPending[i].ph = "insertResp"
  /\ IF dashPending[i].ok
     THEN /\ dashPending' = ReplaceAt(dashPending, i, [dashPending[i] EXCEPT !.ph = "member"])
          /\ DashStep("createDefaultWorkspace", "inserted")
          /\ UNCHANGED dashLoading
     ELSE /\ dashPending' = RemoveAt(dashPending, i)
          /\ dashLoading' = FALSE
          /\ DashStep("createDefaultWorkspace", "error")
  /\ UNCHANGED <<db_workspaces, db_workspace_members, dashWorkspaces, selectedWorkspace>>

\* the backend serves the insert into workspace_members, whose answer
\* createDefaultWorkspace does not read
ServeInsertMember(i, ok) ==
  /\ i \in 1..Len(dashPending)
  /\ dashPending[i].ph = "member"
  /\ LET row == [workspace_id |-> dashPending[i].row[1].id, user_id |-> user, role |-> "owner"]
     IN db_workspace_members' = IF ok THEN db_workspace_members \cup {row}
                                ELSE db_workspace_members
  /\ dashPending' = ReplaceAt(dashPending, i, [dashPending[i] EXCEPT !.ph = "memberResp"])
  /\ DashStep("createDefaultWorkspace", "serveMember")
  /\ UNCHANGED <<db_workspaces, dashWorkspaces, selectedWorkspace, dashLoading>>

\* createDefaultWorkspace after the membership: setWorkspaces([workspace]);
\* setSelectedWorkspace(workspace); then loadWorkspaces ends with
\* setLoading(false)
MemberInserted(i) ==
  /\ i \in 1..Len(dashPending)
  /\ dashPending[i].ph = "memberResp"
  /\ dashWorkspaces' = <<dashPending[i].row[1]>>
  /\ selectedWorkspace' = Some(dashPending[i].row[1])
  /\ dashLoading' = FALSE
  /\ dashPending' = RemoveAt(dashPending, i)
  /\ DashStep("createDefaultWorkspace", "ok")
  /\ UNCHANGED <<db_workspaces, db_workspace_members>>

LoadWorkspacesSteps(answers) ==
  \/ \E i \in 1..Len(dashPending), ok \in answers : ServeSelectMemberships(i, ok)
  \/ \E i \in 1..Len(dashPending) : MembershipsLoaded(i)
  \/ \E i \in 1..Len(dashPending), ok \in answers : ServeSelectWorkspaces(i, ok)
  \/ \E i \in 1..Len(dashPending) : WorkspacesLoaded(i)
  \/ \E i \in 1..Len(dashPending), ok \in answers : ServeInsertWorkspace(i, ok)
  \/ \E i \in 1..Len(dashPending) : WorkspaceInserted(i)
  \/ \E i \in 1..Len(dashPending), ok \in answers : ServeInsertMember(i, ok)
  \/ \E i \in 1..Len(dashPending) : MemberInserted(i)

\* Dashboard has loaded the workspaces of the user and selected the first
DashboardLoaded ==
  /\ db_workspaces = workspaces
  /\ db_workspace_members =
       {[workspace_id |-> w.id, user_id |-> user,
         role |-> IF w.owner_id = user THEN "owner" ELSE "editor"] : w \in workspaces}
  /\ dashWorkspaces = <<workspace>>
  /\ selectedWorkspace = Some(workspace)
  /\ dashLoading = FALSE
  /\ dashPending = <<>>

\* no builder is rendered and its tables are empty; no second browser
BuilderClosed ==
  /\ db_ai_sessions = {} /\ db_change_requests = {} /\ db_pipeline_stages = {}
  /\ db_llm_requests = {} /\ db_usage_events = {}
  /\ selectedProjectId = None
  /\ mode = "discussion" /\ messages = <<>> /\ input = <<>> /\ abLoading = FALSE
  /\ sessionId = None /\ pendingChanges = <<>> /\ abPending = <<>>
  /\ peer = None

\* ------------------------------------------------------- the grid, awaited
\* Dashboard shows the 'bases' tab of a workspace without bases:
\* WorkspaceList has just been mounted and loadBases is in flight
InitGrid ==
  /\ db_bases = {} /\ db_tables = {} /\ db_fields = {} /\ db_records = {} /\ now = 0
  /\ bases = <<>> /\ wlLoading = TRUE /\ wlPending = <<LoadBasesEntry>>
  /\ selectedBase = None
  /\ tables = <<>> /\ selectedTable = None /\ bvLoading = TRUE /\ bvPending = <<>>
  /\ fields = <<>> /\ records = <<>> /\ tvLoading = TRUE
  /\ editingCell = None /\ editValue = <<>>
  /\ tvPending = <<>>
  /\ db_projects = {} /\ db_user_subscriptions = {[user_id |-> user, plan |-> FreePlan, status |-> "active"]}
  /\ activeTab = "bases" /\ showBuilder = FALSE
  /\ projects = <<>> /\ plLoading = TRUE /\ canCreateMore = TRUE /\ plPending = <<>>
  /\ rpcResult = None
  /\ BuilderClosed
  /\ DashboardLoaded
  /\ SubscriptionTabFresh
  /\ last = Step("mount", "sync")

\* what the prompts and editors of the grid are answered with
BaseNames == {"", "Sales"}
TableNames == {"", "Leads"}
FieldNames == {"", "A"}
FieldTypeAnswers == {"", "number", "checkbox", "color"}
GridTexts == {<<>>, <<"1">>, <<"t", "r", "u", "e">>}

\* inserts that requests already in flight may still make
RECURSIVE WlInserts(_)
WlInserts(q) ==
  IF q = <<>> THEN 0
  ELSE WlInserts(Tail(q)) +
       (IF Head(q).op = "handleCreateBase" /\ Head(q).ph = "insert" THEN 1 ELSE 0)

RECURSIVE BvInserts(_)
BvInserts(q) ==
  IF q = <<>> THEN 0
  ELSE BvInserts(Tail(q)) +
       (IF Head(q).op # "handleCreateTable" THEN 0
        ELSE IF Head(q).ph = "insertTable" THEN 2
        ELSE IF Head(q).ph = "tableResp" /\ ~Head(q).ok THEN 0
        ELSE 1)

RECURSIVE TvInserts(_)
TvInserts(q) ==
  IF q = <<>> THEN 0
  ELSE TvInserts(Tail(q)) +
       (IF Head(q).op \in {"handleAddField", "handleAddRecord"} /\ Head(q).ph = "sent" THEN 1 ELSE 0)

\* the run stays within max inserted rows
CanInsert(n, max) ==
  now + WlInserts(wlPending) + BvInserts(bvPending) + TvInserts(tvPending) + n <= max

\* the user waits for what the screen shows before the next click: no handler
\* is suspended, except for the insert of the default field that
\* handleCreateTable sends after it has updated the screen
UserIdle ==
  /\ \A i \in 1..Len(wlPending) : ~wlPending[i].mounted
  /\ \A i \in 1..Len(bvPending) : ~bvPending[i].mounted \/ bvPending[i].ph = "insertField"
  /\ \A i \in 1..Len(tvPending) : ~tvPending[i].mounted

\* the steps that follow the click, handler by handler: the backend serving
\* the request, then the continuation of the handler
LoadBasesSteps(answers) ==
  \/ \E i \in 1..Len(wlPending), ok \in answers : ServeLoadBases(i, ok)
  \/ \E i \in 1..Len(wlPending) : LoadBasesDone(i)

CreateBaseSteps(answers) ==
  \/ \E i \in 1..Len(wlPending), ok \in answers : ServeInsertBase(i, ok)
  \/ \E i \in 1..Len(wlPending) : CreateBaseDone(i)

LoadTablesSteps(answers) ==
  \/ \E i \in 1..Len(bvPending), ok \in answers : ServeLoadTables(i, ok)
  \/ \E i \in 1..Len(bvPending) : LoadTablesDone(i)

CreateTableSteps(answers) ==
  \/ \E i \in 1..Len(bvPending), ok \in answers : ServeInsertTable(i, ok)
  \/ \E i \in 1..Len(bvPending) : CreateTableInserted(i)
  \/ \E i \in 1..Len(bvPending), ok \in answers : ServeInsertDefaultField(i, ok)

DeleteTableSteps(answers) ==
  \/ \E i \in 1..Len(bvPending), ok \in answers : ServeDeleteTable(i, ok)
  \/ \E i \in 1..Len(bvPending) : DeleteTableDone(i)

LoadDataSteps(answers) ==
  \/ \E i \in 1..Len(tvPending), ok \in answers : ServeSelectFields(i, ok)
  \/ \E i \in 1..Len(tvPending), ok \in answers : ServeSelectRecords(i, ok)
  \/ \E i \in 1..Len(tvPending) : LoadDataDone(i)

AddFieldSteps(answers) ==
  \/ \E i \in 1..Len(tvPending), ok \in answers : ServeInsertField(i, ok)
  \/ \E i \in 1..Len(tvPending) : AddFieldDone(i)

DeleteFieldSteps(answers) ==
  \/ \E i \in 1..Len(tvPending), ok \in answers : ServeDeleteField(i, ok)
  \/ \E i \in 1..Len(tvPending) : DeleteFieldDone(i)

AddRecordSteps(answers) ==
  \/ \E i \in 1..Len(tvPending), ok \in answers : ServeInsertRecord(i, ok)
  \/ \E i \in 1..Len(tvPending) : AddRecordDone(i)

DeleteRecordSteps(answers) ==
  \/ \E i \in 1..Len(tvPending), ok \in answers : ServeDeleteRecord(i, ok)
  \/ \E i \in 1..Len(tvPending) : DeleteRecordDone(i)

SaveEditSteps(answers) ==
  \/ \E i \in 1..Len(tvPending), ok \in answers : ServeUpdateRecord(i, ok)
  \/ \E i \in 1..Len(tvPending) : SaveEditDone(i)

\* the whole grid, one user who waits for each operation
NextGrid ==
  \/ \E name \in BaseNames : UserIdle /\ CanInsert(1, MaxRows) /\ handleCreateBase(name)
  \/ \E j \in 1..Len(bases) : UserIdle /\ onSelectBase(j)
  \/ \E name \in TableNames : UserIdle /\ CanInsert(2, MaxRows) /\ handleCreateTable(name)
  \/ \E j \in 1..Len(tables) : UserIdle /\ SelectTable(j)
  \/ \E id \in 1..MaxRows, confirm \in BOOLEAN : UserIdle /\ handleDeleteTable(id, confirm)
  \/ \E name \in FieldNames, type \in FieldTypeAnswers :
       UserIdle /\ CanInsert(1, MaxRows) /\ handleAddField(name, type)
  \/ \E id \in 1..MaxRows, confirm \in BOOLEAN : UserIdle /\ handleDeleteField(id, confirm)
  \/ UserIdle /\ CanInsert(1, MaxRows) /\ handleAddRecord
  \/ \E id \in 1..MaxRows, confirm \in BOOLEAN : UserIdle /\ handleDeleteRecord(id, confirm)
  \/ \E r \in 1..MaxRows, f \in 1..MaxRows : UserIdle /\ handleStartEdit(r, f)
  \/ \E text \in GridTexts : UserIdle /\ setEditValue(text)
  \/ UserIdle /\ handleCancelEdit
  \/ UserIdle /\ handleSaveEdit
  \/ LoadBasesSteps(BOOLEAN) \/ CreateBaseSteps(BOOLEAN)
  \/ LoadTablesSteps(BOOLEAN) \/ CreateTableSteps(BOOLEAN) \/ DeleteTableSteps(BOOLEAN)
  \/ LoadDataSteps(BOOLEAN) \/ AddFieldSteps(BOOLEAN) \/ DeleteFieldSteps(BOOLEAN)
  \/ AddRecordSteps(BOOLEAN) \/ DeleteRecordSteps(BOOLEAN) \/ SaveEditSteps(BOOLEAN)

Spec == InitGrid /\ [][NextGrid]_vars


\* a new table and what is added to it: create and open a base, create
\* tables, leave and reopen the base, add fields and records; nothing is deleted or edited and the backend fails on no request
\* that its constraints accept
NextCreate ==
  \/ \E name \in BaseNames : UserIdle /\ CanInsert(1, MaxRows) /\ handleCreateBase(name)
  \/ \E j \in 1..Len(bases) : UserIdle /\ onSelectBase(j)
  \/ UserIdle /\ onBack
  \/ \E name \in TableNames : UserIdle /\ CanInsert(2, MaxRows) /\ handleCreateTable(name)
  \/ \E name \in FieldNames, type \in FieldTypeAnswers :
       UserIdle /\ CanInsert(1, MaxRows) /\ handleAddField(name, type)
  \/ UserIdle /\ CanInsert(1, MaxRows) /\ handleAddRecord
  \/ LoadBasesSteps({TRUE}) \/ CreateBaseSteps({TRUE})
  \/ LoadTablesSteps({TRUE}) \/ CreateTableSteps({TRUE})
  \/ LoadDataSteps({TRUE}) \/ AddFieldSteps({TRUE}) \/ AddRecordSteps({TRUE})

SpecCreate == InitGrid /\ [][NextCreate]_vars

\* ------------------------------------------------------ editing the cells
\* The base "Sales" with the table "Leads", open in BaseView and loaded by
\* TableView: the fields Name: text and A: number, a record added when these
\* were the fields, and the field B: checkbox added after it.
CellBase == [id |-> 1, workspace_id |-> workspace.id, name |-> "Sales",
             created_by |-> user, created_at |-> 1]
CellTable == [id |-> 2, base_id |-> 1, name |-> "Leads", order_index |-> 0, created_at |-> 2]
FrameFields ==
  <<[id |-> 3, table_id |-> 2, name |-> "Name", type |-> "text", order_index |-> 0,
     required |-> TRUE, created_at |-> 3],
    [id |-> 4, table_id |-> 2, name |-> "A", type |-> "number", order_index |-> 1,
     required |-> FALSE, created_at |-> 4]>>
CellRecord ==
  [id |-> 5, table_id |-> 2, data |-> initialData(FrameFields), created_by |-> user,
   created_at |-> 5]
CellFields ==
  Append(FrameFields,
         [id |-> 6, table_id |-> 2, name |-> "B", type |-> "checkbox", order_index |-> 2,
          required |-> FALSE, created_at |-> 6])

InitLoaded(fs, rs) ==
  /\ db_bases = {CellBase} /\ db_tables = {CellTable} /\ db_fields = Range(fs)
  /\ db_records = Range(rs) /\ now = 2 + Len(fs) + Len(rs)
  /\ bases = <<>> /\ wlLoading = TRUE /\ wlPending = <<>>
  /\ selectedBase = Some(CellBase)
  /\ tables = <<CellTable>> /\ selectedTable = Some(CellTable) /\ bvLoading = FALSE
  /\ bvPending = <<>>
  /\ fields = fs /\ records = rs /\ tvLoading = FALSE
  /\ editingCell = None /\ editValue = <<>>
  /\ tvPending = <<>>
  /\ db_projects = {} /\ db_user_subscriptions = {[user_id |-> user, plan |-> FreePlan, status |-> "active"]}
  /\ activeTab = "bases" /\ showBuilder = FALSE
  /\ projects = <<>> /\ plLoading = TRUE /\ canCreateMore = TRUE /\ plPending = <<>>
  /\ rpcResult = None
  /\ BuilderClosed
  /\ DashboardLoaded
  /\ SubscriptionTabFresh
  /\ last = Step("loadData", "ok")

InitCell == InitLoaded(CellFields, <<CellRecord>>)

\* what can be typed into the editor of a cell: any text in a text input,
\* the two options of the select of a checkbox cell and some texts that are
\* neither
NumberTexts ==
  TextsOver({"1", ".", "-", "a"}, MaxTextLen)
    \cup {<<"a", "b", "c">>, <<"1", "2">>, <<"1", ".", "5">>, <<"0">>, <<" ", "7">>,
          <<"1", "2", "a">>, <<"-", ".", "5">>}
CheckboxTexts ==
  {<<"t", "r", "u", "e">>, <<"f", "a", "l", "s", "e">>, <<>>, <<"T", "r", "u", "e">>, <<"1">>}
TextTexts == {<<>>, <<"a">>}

EditorTexts(type) ==
  IF type = "number" THEN NumberTexts
  ELSE IF type = "checkbox" THEN CheckboxTexts
  ELSE TextTexts

\* the type of the field of the cell being edited ("" when no editor is rendered)
EditingType ==
  IF editingCell = None \/ FindById(fields, editingCell[1].fieldId) = None THEN ""
  ELSE FindById(fields, editingCell[1].fieldId)[1].type

CellIds == {fs.id : fs \in Range(CellFields)} \cup {CellRecord.id}

\* the cells of the record are edited, each edit awaited
NextCell ==
  \/ \E r \in CellIds, f \in CellIds : UserIdle /\ handleStartEdit(r, f)
  \/ \E text \in NumberTexts \cup CheckboxTexts \cup TextTexts :
       UserIdle /\ text \in EditorTexts(EditingType) /\ setEditValue(text)
  \/ UserIdle /\ handleCancelEdit
  \/ UserIdle /\ handleSaveEdit
  \/ SaveEditSteps(BOOLEAN)

SpecCell == InitCell /\ [][NextCell]_vars

\* the same table with its first two fields and no record, while its fields
\* change: fields are added and deleted, records are added and their cells
\* edited, each operation awaited
InitFrame == InitLoaded(FrameFields, <<>>)
FrameNow == 2 + Len(FrameFields)
FrameTexts == {<<"1">>}
FrameIds == 1..(FrameNow + MaxFrameRows)

NextFrame ==
  \/ \E name \in {"B"}, type \in {"checkbox"} :
       UserIdle /\ CanInsert(1, FrameNow + MaxFrameRows) /\ handleAddField(name, type)
  \/ \E id \in FrameIds, confirm \in BOOLEAN : UserIdle /\ handleDeleteField(id, confirm)
  \/ UserIdle /\ CanInsert(1, FrameNow + MaxFrameRows) /\ handleAddRecord
  \/ \E r \in FrameIds, f \in FrameIds : UserIdle /\ handleStartEdit(r, f)
  \/ \E text \in FrameTexts : UserIdle /\ setEditValue(text)
  \/ UserIdle /\ handleSaveEdit
  \/ AddFieldSteps(BOOLEAN) \/ DeleteFieldSteps(BOOLEAN) \/ AddRecordSteps(BOOLEAN) \/ SaveEditSteps(BOOLEAN)

SpecFrame == InitFrame /\ [][NextFrame]_vars

\* ------------------------------------------------- two browsers, one table
\* the table with its first two fields and one record, shown by this
\* browser and loaded by a second one: both edit cells and add fields, and
\* this browser may add a second field while its first insert is in flight
InitPeer == InitLoaded(FrameFields, <<CellRecord>>)
PeerNow == 3 + Len(FrameFields)
PeerTexts == {<<"7">>}

\* requests of this browser's TableView that are in flight
Mine(op) == {i \in 1..Len(tvPending) : tvPending[i].mounted /\ tvPending[i].op = op}
\* the second browser has no request in flight
PeerIdle == \A i \in 1..Len(tvPending) : tvPending[i].mounted

NextPeer ==
  \/ \E name \in {"B"}, type \in {"checkbox"} :
       /\ Cardinality(Mine("handleAddField")) <= 1 /\ Mine("handleSaveEdit") = {}
       /\ CanInsert(1, PeerNow + MaxPeerRows) /\ handleAddField(name, type)
  \/ UserIdle /\ handleStartEdit(CellRecord.id, FrameFields[1].id)
  \/ \E text \in PeerTexts : UserIdle /\ setEditValue(text)
  \/ UserIdle /\ handleSaveEdit
  \/ PeerIdle /\ PeerLoadData
  \/ \E name \in {"C"}, type \in {"text"} :
       PeerIdle /\ CanInsert(1, PeerNow + MaxPeerRows) /\ PeerAddField(name, type)
  \/ \E text \in PeerTexts : PeerIdle /\ PeerSaveEdit(CellRecord.id, FrameFields[2].id, text)
  \/ AddFieldSteps({TRUE}) \/ SaveEditSteps({TRUE})

SpecPeer == InitPeer /\ [][NextPeer]_vars

\* ------------------------------------------------ BaseView, not awaited
\* a base with two tables, each with its default field, open in BaseView;
\* the user creates, selects and deletes tables without waiting for the
\* answers: the buttons stay enabled while a request is in flight
OverlapTable(id, k) ==
  [id |-> id, base_id |-> CellBase.id, name |-> "Leads", order_index |-> k, created_at |-> id]
OverlapField(id, tid) ==
  [id |-> id, table_id |-> tid, name |-> "Name", type |-> "text", order_index |-> 0,
   required |-> TRUE, created_at |-> id]
\* the base, its two tables and their default fields are stored
OverlapNow == CellBase.id + 4

InitOverlap ==
  /\ db_bases = {CellBase}
  /\ db_tables = {OverlapTable(2, 0), OverlapTable(4, 1)}
  /\ db_fields = {OverlapField(3, 2), OverlapField(5, 4)}
  /\ db_records = {} /\ now = OverlapNow
  /\ bases = <<>> /\ wlLoading = TRUE /\ wlPending = <<>>
  /\ selectedBase = Some(CellBase)
  /\ tables = <<OverlapTable(2, 0), OverlapTable(4, 1)>>
  /\ selectedTable = Some(OverlapTable(2, 0)) /\ bvLoading = FALSE
  /\ bvPending = <<>>
  /\ fields = <<OverlapField(3, 2)>> /\ records = <<>> /\ tvLoading = FALSE
  /\ editingCell = None /\ editValue = <<>>
  /\ tvPending = <<>>
  /\ db_projects = {} /\ db_user_subscriptions = {[user_id |-> user, plan |-> FreePlan, status |-> "active"]}
  /\ activeTab = "bases" /\ showBuilder = FALSE
  /\ projects = <<>> /\ plLoading = TRUE /\ canCreateMore = TRUE /\ plPending = <<>>
  /\ rpcResult = None
  /\ BuilderClosed
  /\ DashboardLoaded
  /\ SubscriptionTabFresh
  /\ last = Step("loadData", "ok")

\* the grid has loaded, and fewer than MaxOverlap requests of BaseView are
\* in flight
CanOverlap == tvPending = <<>> /\ Len(bvPending) < MaxOverlap

NextOverlap ==
  \/ \E name \in TableNames :
       CanOverlap /\ CanInsert(2, OverlapNow + MaxOverlap) /\ handleCreateTable(name)
  \/ \E j \in 1..Len(tables) : tvPending = <<>> /\ SelectTable(j)
  \/ \E id \in 1..(OverlapNow + MaxOverlap), confirm \in BOOLEAN :
       CanOverlap /\ handleDeleteTable(id, confirm)
  \/ CreateTableSteps({TRUE}) \/ DeleteTableSteps({TRUE}) \/ LoadDataSteps({TRUE})

SpecOverlap == InitOverlap /\ [][NextOverlap]_vars

\* ------------------------------------------------ the gate on a filled store
\* a store with up to max_bases of the Free plan bases in the user's own
\* workspace, possibly one the user created in the other workspace, with
\* projects and with any subscription; Dashboard was just rendered
OwnedBases(n) ==
  {[id |-> k, workspace_id |-> workspace.id, name |-> "Sales", created_by |-> user,
    created_at |-> k] : k \in 1..n}
MemberBase ==
  [id |-> FreePlan.max_bases + 1, workspace_id |-> 2, name |-> "Sales", created_by |-> user,
   created_at |-> FreePlan.max_bases + 1]
StoredProject(k, status) ==
  [id |-> FreePlan.max_bases + 1 + k, user_id |-> user, workspace_id |-> workspace.id,
   status |-> status, created_at |-> FreePlan.max_bases + 1 + k]
StoredProjects ==
  {{}, {StoredProject(1, "active")}, {StoredProject(1, "archived")},
   {StoredProject(1, "archived"), StoredProject(2, "active")}}
StoredSubscriptions ==
  {{}} \cup {{[user_id |-> user, plan |-> plan, status |-> status]} :
               plan \in subscription_plans, status \in {"active", "cancelled"}}
LimitNow == FreePlan.max_bases + 3

\* Dashboard shows the given tab, whose list was just mounted
InitDashboard(tab) ==
  /\ db_tables = {} /\ db_fields = {} /\ db_records = {} /\ now = LimitNow
  /\ bases = <<>> /\ wlLoading = TRUE
  /\ wlPending = IF tab = "bases" THEN <<LoadBasesEntry>> ELSE <<>>
  /\ selectedBase = None
  /\ tables = <<>> /\ selectedTable = None /\ bvLoading = TRUE /\ bvPending = <<>>
  /\ fields = <<>> /\ records = <<>> /\ tvLoading = TRUE
  /\ editingCell = None /\ editValue = <<>>
  /\ tvPending = <<>>
  /\ activeTab = tab /\ showBuilder = FALSE
  /\ projects = <<>> /\ plLoading = TRUE /\ canCreateMore = TRUE
  /\ plPending = IF tab = "projects"
                 THEN <<PlEntry("loadProjects", <<>>, 0), PlEntry("checkLimits", <<>>, 0)>>
                 ELSE <<>>
  /\ rpcResult = None
  /\ BuilderClosed
  /\ DashboardLoaded
  /\ SubscriptionTabFresh
  /\ last = Step("mount", "sync")

InitLimit ==
  /\ \E n \in 0..FreePlan.max_bases, member \in BOOLEAN :
       db_bases = OwnedBases(n) \cup (IF member THEN {MemberBase} ELSE {})
  /\ db_projects \in StoredProjects
  /\ db_user_subscriptions \in StoredSubscriptions
  /\ InitDashboard("bases")

LIMIT_TYPES == {"projects", "bases", "records"}
LimitIds == 1..(LimitNow + MaxLimitRows)

\* the 'bases' tab on the filled store: bases and projects are created and
\* the stored procedure is called
NextLimit ==
  \/ \E name \in BaseNames :
       UserIdle /\ CanInsert(1, LimitNow + MaxLimitRows) /\ handleCreateBase(name)
  \/ \E w \in workspaces, ok \in BOOLEAN :
       CanInsert(1, LimitNow + MaxLimitRows) /\ AppBuilderInsertProject(w.id, ok)
  \/ \E p_limit_type \in LIMIT_TYPES : rpc(p_limit_type)
  \/ LoadBasesSteps(BOOLEAN) \/ CreateBaseSteps(BOOLEAN)

SpecLimit == InitLimit /\ [][NextLimit]_vars

\* inserts into ai_sessions that initSession calls in flight may still make
\* or have failed to make
RECURSIVE AbInserts(_)
AbInserts(q) ==
  IF q = <<>> THEN 0
  ELSE AbInserts(Tail(q)) + (IF Head(q).op = "initSession" /\ ~Head(q).ok THEN 1 ELSE 0)

InitSessionSteps(answers) ==
  \/ \E i \in 1..Len(abPending), ok \in answers : ServeInsertSession(i, ok)
  \/ \E i \in 1..Len(abPending) : InitSessionDone(i)

LoadPendingChangesSteps(answers) ==
  \/ \E i \in 1..Len(abPending), ok \in answers : ServeSelectChanges(i, ok)
  \/ \E i \in 1..Len(abPending) : LoadPendingChangesDone(i)

SendSteps(answers) ==
  \/ \E i \in 1..Len(abPending), ok \in answers : ServeInsertLlm(i, ok)
  \/ \E i \in 1..Len(abPending), ok \in answers : ServeTrackUsage(i, ok)
  \/ \E i \in 1..Len(abPending) : SendTimerDone(i)
  \/ \E i \in 1..Len(abPending), ok \in answers : ServeInsertChange(i, ok)
  \/ \E i \in 1..Len(abPending) : ChangeInserted(i)
  \/ \E i \in 1..Len(abPending), ok \in answers : ServeUpdateSession(i, ok)
  \/ \E i \in 1..Len(abPending) : SendDone(i)

\* --------------------------------------------------- the 'projects' tab
InitProjects ==
  /\ db_bases = {}
  /\ db_projects \in StoredProjects
  /\ db_user_subscriptions \in StoredSubscriptions
  /\ InitDashboard("projects")

Tabs == {"dashboard", "projects", "bases"}

\* no request of an unmounted component is still in flight
NoDetached ==
  /\ \A i \in 1..Len(plPending) : plPending[i].mounted
  /\ \A i \in 1..Len(wlPending) : wlPending[i].mounted
  /\ \A i \in 1..Len(abPending) : abPending[i].mounted

\* the run stays within MaxLimitRows rows of ai_sessions
CanOpenBuilder == Cardinality(db_ai_sessions) + AbInserts(abPending) < MaxLimitRows

LoadProjectsSteps(answers) ==
  \/ \E i \in 1..Len(plPending), ok \in answers : ServeLoadProjects(i, ok)
  \/ \E i \in 1..Len(plPending) : LoadProjectsDone(i)

CheckLimitsSteps(answers) ==
  \/ \E i \in 1..Len(plPending), ok \in answers : ServeCheckLimits(i, ok)
  \/ \E i \in 1..Len(plPending) : CheckLimitsDone(i)

ArchiveProjectSteps(answers) ==
  \/ \E i \in 1..Len(plPending), ok \in answers : ServeArchiveProject(i, ok)
  \/ \E i \in 1..Len(plPending) : ArchiveProjectDone(i)

NextProjects ==
  \/ \E tab \in Tabs : NoDetached /\ setActiveTab(tab)
  \/ CanOpenBuilder /\ handleCreateProject
  \/ \E j \in 1..Len(projects) : NoDetached /\ CanOpenBuilder /\ onOpenBuilder(j)
  \/ NoDetached /\ closeBuilder
  \/ \E id \in LimitIds, confirm \in BOOLEAN : plPending = <<>> /\ handleArchiveProject(id, confirm)
  \/ \E w \in workspaces, ok \in BOOLEAN :
       CanInsert(1, LimitNow + MaxLimitRows) /\ AppBuilderInsertProject(w.id, ok)
  \/ LoadProjectsSteps(BOOLEAN) \/ CheckLimitsSteps(BOOLEAN) \/ ArchiveProjectSteps(BOOLEAN)
  \/ LoadBasesSteps(BOOLEAN)
  \/ InitSessionSteps({TRUE}) \/ LoadPendingChangesSteps({TRUE})

SpecProjects == InitProjects /\ [][NextProjects]_vars

\* ------------------------------------------------ the confirmation dialogs
\* the grid scenario and, on the 'projects' tab, the archiving of projects:
\* every handler that asks window.confirm, with both answers
InitConfirm == InitGrid \/ InitProjects

NextArchive ==
  \/ \E id \in LimitIds, confirm \in BOOLEAN : plPending = <<>> /\ handleArchiveProject(id, confirm)
  \/ LoadProjectsSteps(BOOLEAN) \/ CheckLimitsSteps(BOOLEAN) \/ ArchiveProjectSteps(BOOLEAN)

NextConfirm == NextGrid \/ NextArchive

SpecConfirm == InitConfirm /\ [][NextConfirm]_vars

\* ------------------------------------------------- archiving at the limit
\* the 'projects' tab over every stored plan and project set: projects are
\* archived, ProjectList asks the gate again, and the procedure is called
\* for every limit type
NextGate ==
  \/ NextArchive
  \/ \E p_limit_type \in LIMIT_TYPES : rpc(p_limit_type)

SpecGate == InitProjects /\ [][NextGate]_vars

\* ------------------------------------------------------ the builder, open
\* Dashboard shows the builder, opened from the 'projects' tab for the
\* stored project or for a new one: EnhancedAppBuilder was just mounted
BuilderProject == StoredProject(1, "active")
BuilderNow == BuilderProject.id

InitBuilder ==
  /\ db_bases = {} /\ db_tables = {} /\ db_fields = {} /\ db_records = {} /\ now = BuilderNow
  /\ bases = <<>> /\ wlLoading = TRUE /\ wlPending = <<>>
  /\ selectedBase = None
  /\ tables = <<>> /\ selectedTable = None /\ bvLoading = TRUE /\ bvPending = <<>>
  /\ fields = <<>> /\ records = <<>> /\ tvLoading = TRUE
  /\ editingCell = None /\ editValue = <<>>
  /\ tvPending = <<>>
  /\ db_projects = {BuilderProject}
  /\ db_user_subscriptions = {[user_id |-> user, plan |-> FreePlan, status |-> "active"]}
  /\ activeTab = "projects" /\ showBuilder = TRUE
  /\ projects = <<>> /\ plLoading = TRUE /\ canCreateMore = TRUE /\ plPending = <<>>
  /\ rpcResult = None
  /\ db_ai_sessions = {} /\ db_change_requests = {} /\ db_pipeline_stages = {}
  /\ db_llm_requests = {} /\ db_usage_events = {}
  /\ selectedProjectId \in {None, Some(BuilderProject.id)}
  /\ mode = "discussion" /\ messages = <<initialMessage("discussion")>>
  /\ input = <<>> /\ abLoading = FALSE /\ sessionId = None /\ pendingChanges = <<>>
  /\ abPending = ModeEffects(<<>>, "discussion", None, <<>>, selectedProjectId)
  /\ peer = None
  /\ DashboardLoaded
  /\ SubscriptionTabFresh
  /\ last = Step("onOpenBuilder", "sync")

\* what is typed into the textarea of the builder
InputTexts == {<<"h", " ">>}

\* the mode changes while at most one request of the effects is in flight,
\* and the run stays within MaxSessions rows of ai_sessions
CanSwitch(m) ==
  /\ m # mode
  /\ Cardinality(db_ai_sessions) + AbInserts(abPending) < MaxSessions
  /\ Len(abPending) <= 1

\* the run stays within MaxSends messages of the user in a chat and MaxSends
\* rows in each table that a send writes
CanSend ==
  /\ Cardinality({j \in 1..Len(messages) : messages[j].role = "user"}) < MaxSends
  /\ Cardinality(db_llm_requests) < MaxSends
  /\ Cardinality(db_usage_events) < MaxSends
  /\ Cardinality(db_change_requests) < MaxSends

ApproveChangeSteps(answers) ==
  \/ \E i \in 1..Len(abPending), ok \in answers : ServeApproveChange(i, ok)
  \/ \E i \in 1..Len(abPending) : ApproveChangeDone(i)
  \/ \E i \in 1..Len(abPending), ok \in answers : ServeInsertPipeline(i, ok)

RejectChangeSteps(answers) ==
  \/ \E i \in 1..Len(abPending), ok \in answers : ServeRejectChange(i, ok)
  \/ \E i \in 1..Len(abPending) : RejectChangeDone(i)

\* the user waits for the answer to a message and for an approval or a
\* rejection to go through; initSession and loadPendingChanges, which the
\* effects start, are not waited for
AbIdle ==
  \A i \in 1..Len(abPending) :
    ~abPending[i].mounted \/ abPending[i].op \in {"initSession", "loadPendingChanges"}

\* the chat of the builder: the mode is switched and messages are sent
NextBuilder ==
  \/ \E m \in SESSION_TYPES : AbIdle /\ CanSwitch(m) /\ setMode(m)
  \/ \E text \in InputTexts : AbIdle /\ setInput(text)
  \/ AbIdle /\ CanSend /\ handleSend
  \/ InitSessionSteps({TRUE}) \/ LoadPendingChangesSteps({TRUE}) \/ SendSteps(BOOLEAN)

SpecBuilder == InitBuilder /\ [][NextBuilder]_vars

\* the timers of handleSend fire and its requests are answered
FairBuilder == SpecBuilder /\ WF_vars(SendSteps(BOOLEAN))

\* ------------------------------------------------ the changes of a project
\* the builder was opened for the stored project, for which an earlier
\* session of the user has left a change request that is still pending
OldSession ==
  [id |-> 1, project_id |-> Some(BuilderProject.id), user_id |-> user,
   session_type |-> "build", messages |-> <<initialMessage("build")>>,
   credits_consumed |-> 0, created_at |-> 1]
OldChange ==
  [id |-> 1, session_id |-> OldSession.id, project_id |-> BuilderProject.id,
   summary |-> <<"o">>, status |-> "pending", approved_by |-> None, approved_at |-> None,
   created_at |-> 1]

InitChanges ==
  /\ db_bases = {} /\ db_tables = {} /\ db_fields = {} /\ db_records = {}
  /\ now = BuilderNow
  /\ bases = <<>> /\ wlLoading = TRUE /\ wlPending = <<>>
  /\ selectedBase = None
  /\ tables = <<>> /\ selectedTable = None /\ bvLoading = TRUE /\ bvPending = <<>>
  /\ fields = <<>> /\ records = <<>> /\ tvLoading = TRUE
  /\ editingCell = None /\ editValue = <<>>
  /\ tvPending = <<>>
  /\ db_projects = {BuilderProject}
  /\ db_user_subscriptions = {[user_id |-> user, plan |-> FreePlan, status |-> "active"]}
  /\ activeTab = "projects" /\ showBuilder = TRUE
  /\ projects = <<>> /\ plLoading = TRUE /\ canCreateMore = TRUE /\ plPending = <<>>
  /\ rpcResult = None
  /\ db_ai_sessions = {OldSession} /\ db_change_requests = {OldChange}
  /\ db_pipeline_stages = {} /\ db_llm_requests = {} /\ db_usage_events = {}
  /\ selectedProjectId = Some(BuilderProject.id)
  /\ mode = "discussion" /\ messages = <<initialMessage("discussion")>>
  /\ input = <<>> /\ abLoading = FALSE /\ sessionId = None /\ pendingChanges = <<>>
  /\ abPending = ModeEffects(<<>>, "discussion", None, <<>>, selectedProjectId)
  /\ peer = None
  /\ DashboardLoaded
  /\ SubscriptionTabFresh
  /\ last = Step("onOpenBuilder", "sync")

\* the mode changes once the requests of the effects are through, and the
\* run stays within MaxSessions new rows of ai_sessions
CanSwitchChanges(m) ==
  /\ m # mode
  /\ Cardinality(db_ai_sessions \ {OldSession}) + AbInserts(abPending) < MaxSessions
  /\ abPending = <<>>

\* the run stays within MaxSends new rows of change_requests
CanSendChanges ==
  /\ Cardinality({j \in 1..Len(messages) : messages[j].role = "user"}) < MaxSends
  /\ Cardinality(db_change_requests \ {OldChange}) < MaxSends

\* messages are sent in either mode and the pending changes are approved or
\* rejected; the backend fails on no request of a send
NextChanges ==
  \/ \E m \in SESSION_TYPES : AbIdle /\ CanSwitchChanges(m) /\ setMode(m)
  \/ \E text \in InputTexts : AbIdle /\ setInput(text)
  \/ AbIdle /\ CanSendChanges /\ handleSend
  \/ \E j \in 1..Len(pendingChanges) : AbIdle /\ handleApproveChange(pendingChanges[j].id)
  \/ \E j \in 1..Len(pendingChanges) : AbIdle /\ handleRejectChange(pendingChanges[j].id)
  \/ InitSessionSteps({TRUE}) \/ LoadPendingChangesSteps({TRUE}) \/ SendSteps({TRUE})
  \/ ApproveChangeSteps(BOOLEAN) \/ RejectChangeSteps(BOOLEAN)

SpecChanges == InitChanges /\ [][NextChanges]_vars

\* ------------------------------------------------ two changes of a project
\* a second change request of the same session, pending like OldChange
OtherChange ==
  [OldChange EXCEPT !.id = 2, !.summary = <<"p">>, !.created_at = 2]

\* the builder opens on a project that has two pending change requests
InitDecide ==
  /\ db_bases = {} /\ db_tables = {} /\ db_fields = {} /\ db_records = {}
  /\ now = OtherChange.id
  /\ bases = <<>> /\ wlLoading = TRUE /\ wlPending = <<>>
  /\ selectedBase = None
  /\ tables = <<>> /\ selectedTable = None /\ bvLoading = TRUE /\ bvPending = <<>>
  /\ fields = <<>> /\ records = <<>> /\ tvLoading = TRUE
  /\ editingCell = None /\ editValue = <<>>
  /\ tvPending = <<>>
  /\ db_projects = {BuilderProject}
  /\ db_user_subscriptions = {[user_id |-> user, plan |-> FreePlan, status |-> "active"]}
  /\ activeTab = "projects" /\ showBuilder = TRUE
  /\ projects = <<>> /\ plLoading = TRUE /\ canCreateMore = TRUE /\ plPending = <<>>
  /\ rpcResult = None
  /\ db_ai_sessions = {OldSession} /\ db_change_requests = {OldChange, OtherChange}
  /\ db_pipeline_stages = {} /\ db_llm_requests = {} /\ db_usage_events = {}
  /\ selectedProjectId = Some(BuilderProject.id)
  /\ mode = "discussion" /\ messages = <<initialMessage("discussion")>>
  /\ input = <<>> /\ abLoading = FALSE /\ sessionId = None /\ pendingChanges = <<>>
  /\ abPending = ModeEffects(<<>>, "discussion", None, <<>>, selectedProjectId)
  /\ peer = None
  /\ DashboardLoaded
  /\ SubscriptionTabFresh
  /\ last = Step("onOpenBuilder", "sync")

\* at most MaxOverlap decisions are in flight at a time
CanDecide ==
  Cardinality({i \in 1..Len(abPending) :
                 abPending[i].op \in {"handleApproveChange", "handleRejectChange"}})
    < MaxOverlap

\* the buttons of the panel are pressed without waiting for the answer of
\* an earlier press
NextDecide ==
  \/ \E m \in SESSION_TYPES : AbIdle /\ CanSwitchChanges(m) /\ setMode(m)
  \/ \E j \in 1..Len(pendingChanges) : CanDecide /\ handleApproveChange(pendingChanges[j].id)
  \/ \E j \in 1..Len(pendingChanges) : CanDecide /\ handleRejectChange(pendingChanges[j].id)
  \/ InitSessionSteps({TRUE}) \/ LoadPendingChangesSteps({TRUE})
  \/ ApproveChangeSteps(BOOLEAN) \/ RejectChangeSteps(BOOLEAN)

SpecDecide == InitDecide /\ [][NextDecide]_vars

\* ------------------------------------------------------- the first sign-in
\* a user without a membership signs in: Dashboard mounts and the effect on
\* [user] starts loadWorkspaces
InitSignIn ==
  /\ db_bases = {} /\ db_tables = {} /\ db_fields = {} /\ db_records = {} /\ now = 0
  /\ bases = <<>> /\ wlLoading = TRUE /\ wlPending = <<>>
  /\ selectedBase = None
  /\ tables = <<>> /\ selectedTable = None /\ bvLoading = TRUE /\ bvPending = <<>>
  /\ fields = <<>> /\ records = <<>> /\ tvLoading = TRUE
  /\ editingCell = None /\ editValue = <<>>
  /\ tvPending = <<>>
  /\ db_projects = {} /\ db_user_subscriptions = {}
  /\ activeTab = "dashboard" /\ showBuilder = FALSE
  /\ projects = <<>> /\ plLoading = TRUE /\ canCreateMore = TRUE /\ plPending = <<>>
  /\ rpcResult = None
  /\ BuilderClosed
  /\ db_workspaces = {} /\ db_workspace_members = {}
  /\ dashWorkspaces = <<>> /\ selectedWorkspace = None /\ dashLoading = TRUE
  /\ dashPending = <<[op |-> "loadWorkspaces", ph |-> "memberships", selectedWorkspace |-> None,
                      ok |-> FALSE, ids |-> {}, row |-> None]>>
  /\ SubscriptionTabFresh
  /\ last = Step("loadWorkspaces", "issue")

\* the effect runs again (the user object of the auth context is replaced)
\* while the run stays within MaxWorkspaces rows and runs in flight
CanLoadWorkspaces == Cardinality(db_workspaces) + Len(dashPending) < MaxWorkspaces

NextSignIn ==
  \/ CanLoadWorkspaces /\ loadWorkspaces
  \/ LoadWorkspacesSteps(BOOLEAN)

SpecSignIn == InitSignIn /\ [][NextSignIn]_vars

\* --------------------------------------------------------- plans with limits
\* the values of a limit column: unlimited, one, and a number of four digits
LimitValues == {-1, 1, 1000}

\* a plan added to subscription_plans next to the seeded ones
CustomPlans ==
  [name : {"Custom"}, price_monthly : {4900}, max_projects : LimitValues,
   max_bases : LimitValues, max_records_per_base : LimitValues, max_storage_mb : LimitValues]

\* the user holds a subscription to a seeded or to a custom plan, a base and
\* a project, and Dashboard was just rendered
InitPlans ==
  /\ db_bases = OwnedBases(1)
  /\ db_projects = {StoredProject(1, "active")}
  /\ \E plan \in subscription_plans \cup CustomPlans :
       db_user_subscriptions = {[user_id |-> user, plan |-> plan, status |-> "active"]}
  /\ InitDashboard("dashboard")

\* the usage panel and the plan cards are loaded, and the procedure is called
NextPlans ==
  \/ \E tab \in {"dashboard", "subscription"} : setActiveTab(tab)
  \/ \E plansOk, subOk \in BOOLEAN : loadSubscriptionData(plansOk, subOk)
  \/ \E subOk, planOk, countOk \in BOOLEAN : loadUsageData(subOk, planOk, countOk)
  \/ \E p_limit_type \in LIMIT_TYPES : rpc(p_limit_type)

SpecPlans == InitPlans /\ [][NextPlans]_vars

\* ================================================================ claims
\* the stored fields of a table
FieldsOf(tableId) == {f \in db_fields : f.table_id = tableId}

\* C1: after create-table and add-field operations only, each add-field
\* awaited, the order_index values of the stored fields of every table are
\* exactly 0..n-1 for its n stored fields
C1_OrderIndexDense ==
  \A t \in db_tables :
    {f.order_index : f \in FieldsOf(t.id)} = 0..(Cardinality(FieldsOf(t.id)) - 1)

\* the handleAddRecord calls in flight
AddRecordCalls == {i \in 1..Len(tvPending) : tvPending[i].op = "handleAddRecord"}

\* C2: the data map that handleAddRecord inserts has exactly one key per field
\* of the current field list, with false for a checkbox field, 0 for a number
\* field and the empty string for any other type, and the created row holds
\* that map
C2_AddRecordDefaults ==
  \A i \in AddRecordCalls :
    LET e == tvPending[i]
        data == e.req[1].data
    IN /\ DOMAIN data = {e.fields[j].id : j \in 1..Len(e.fields)}
       /\ \A j \in 1..Len(e.fields) :
            data[e.fields[j].id] =
              IF e.fields[j].type = "checkbox" THEN BoolV(FALSE)
              ELSE IF e.fields[j].type = "number" THEN NumV(0, 0)
              ELSE StrV(<<>>)
       /\ e.row # None => e.row[1].data = data /\ e.row[1] \in db_records

\* fields [text, number, checkbox] gave a record {"", 0, false}
C2_Witness ==
  \E i \in AddRecordCalls :
    /\ tvPending[i].row # None
    /\ [j \in 1..Len(tvPending[i].fields) |-> tvPending[i].fields[j].type]
         = <<"text", "number", "checkbox">>
    /\ Cardinality(DOMAIN tvPending[i].row[1].data) = Len(tvPending[i].fields)
    /\ tvPending[i].row[1].data[tvPending[i].fields[1].id] = StrV(<<>>)
    /\ tvPending[i].row[1].data[tvPending[i].fields[2].id] = NumV(0, 0)
    /\ tvPending[i].row[1].data[tvPending[i].fields[3].id] = BoolV(FALSE)

\* C3: create base, create table, add record: every stored record holds the
\* key of the default field 'Name' of its table (the required one) with the
\* empty string, whatever the order of the initial load and the insert of the
\* default field
C3_NameKeyPresent ==
  \A r \in db_records :
    \A f \in FieldsOf(r.table_id) :
      f.required => f.id \in DOMAIN r.data /\ r.data[f.id] = StrV(<<>>)

\* the step serves the update that handleSaveEdit sent for this cell
ServesEditOf(recordId, fieldId) ==
  /\ last'.op = "handleSaveEdit" /\ last'.ev = "serve"
  /\ \E i \in 1..Len(tvPending) :
       /\ tvPending[i].op = "handleSaveEdit" /\ tvPending[i].ph = "sent"
       /\ tvPending'[i].ph = "resp"
       /\ tvPending[i].arg = recordId
       /\ tvPending[i].editingCell[1].fieldId = fieldId

\* C4: a step of handleAddField or of handleDeleteField changes no record,
\* stored or shown; no step removes a key from the data of a record, and a
\* key gets a value or another value only when an edit of that very cell is
\* saved: the key of a deleted field stays with its value through the edits
\* of other cells and the key of an added field comes with its first edit
C4_FieldOpsKeepData ==
  [][/\ last'.op \in {"handleAddField", "handleDeleteField"}
          => db_records' = db_records /\ records' = records
     /\ \A r \in db_records :
          \E r2 \in db_records' :
            /\ r2.id = r.id
            /\ DOMAIN r.data \subseteq DOMAIN r2.data
            /\ \A fid \in DOMAIN r2.data :
                 (fid \notin DOMAIN r.data \/ r2.data[fid] # r.data[fid])
                   => ServesEditOf(r.id, fid)]_vars

\* an edit was saved in a record that holds the key of a deleted field and
\* lacks the key of a field added after it
C4_Witness ==
  /\ last = Step("handleSaveEdit", "ok")
  /\ \E r \in db_records :
       /\ \E fid \in DOMAIN r.data : \A f \in db_fields : f.id # fid
       /\ \E f \in FieldsOf(r.table_id) : f.id \notin DOMAIN r.data
       /\ \E fid \in DOMAIN r.data : r.data[fid] = NumV(1, 0)

\* the handleSaveEdit calls in flight on a cell of a field of the given type
SaveEditCalls(type) ==
  {i \in 1..Len(tvPending) :
     /\ tvPending[i].op = "handleSaveEdit"
     /\ FindById(tvPending[i].fields, tvPending[i].editingCell[1].fieldId) # None
     /\ FindById(tvPending[i].fields, tvPending[i].editingCell[1].fieldId)[1].type = type}

\* the value that the call sends for its cell
SentValue(i) == tvPending[i].req[1].data[tvPending[i].editingCell[1].fieldId]

\* edit texts with the number each stands for, as m / 10^e
NumberCases ==
  {<<<<"1", "2">>, 12, 0>>, <<<<"1", ".", "5">>, 15, 1>>, <<<<"0">>, 0, 0>>,
   <<<<" ", "7">>, 7, 0>>, <<<<"1", "2", "a">>, 12, 0>>, <<<<"-", ".", "5">>, -5, 1>>,
   <<<<"1">>, 1, 0>>, <<<<"1", "1">>, 11, 0>>, <<<<".", "1">>, 1, 1>>, <<<<"1", ".">>, 1, 0>>,
   <<<<"-", "1">>, -1, 0>>, <<<<"1", "a">>, 1, 0>>, <<<<"1", "-">>, 1, 0>>,
   <<<<"7">>, 7, 0>>, <<<<"0", ".", "1">>, 1, 1>>, <<<<"-", "0", ".", "5">>, -5, 1>>}

\* texts that do not start a number
NotNumbers ==
  {<<"a", "b", "c">>, <<>>, <<"a">>, <<".">>, <<"-">>, <<"a", "1">>, <<".", ".">>,
   <<"-", "-">>, <<"-", "a">>, <<".", "a">>, <<"-", ".">>, <<".", "-">>, <<"a", ".">>,
   <<"a", "-">>, <<"a", "a">>}

\* C5: for a cell of a number field handleSaveEdit sends, and the store then
\* holds, a number: the number the text stands for, and 0 for a text that
\* stands for none; never NaN and never a string
C5_NumberCoercion ==
  /\ \A i \in SaveEditCalls("number") :
       /\ SentValue(i).k = "number"
       /\ \A c \in NumberCases :
            tvPending[i].editValue = c[1] => SentValue(i) = NumV(c[2], c[3])
       /\ tvPending[i].editValue \in NotNumbers => SentValue(i) = NumV(0, 0)
  /\ \A r \in db_records : \A f \in FieldsOf(r.table_id) :
       f.type = "number" /\ f.id \in DOMAIN r.data => r.data[f.id].k = "number"

\* the edit text "abc" was saved in a number cell and the store holds 0
C5_Witness ==
  \E i \in SaveEditCalls("number") :
    /\ tvPending[i].editValue = <<"a", "b", "c">>
    /\ tvPending[i].ph = "resp" /\ tvPending[i].ok
    /\ \E r \in db_records :
         r.id = tvPending[i].arg /\ r.data[tvPending[i].editingCell[1].fieldId] = NumV(0, 0)

\* C6: for a cell of a checkbox field handleSaveEdit sends, and the store
\* then holds, a boolean: true exactly when the edit text is "true"
C6_CheckboxCoercion ==
  /\ \A i \in SaveEditCalls("checkbox") :
       /\ SentValue(i).k = "boolean"
       /\ SentValue(i).b <=> tvPending[i].editValue = <<"t", "r", "u", "e">>
  /\ \A r \in db_records : \A f \in FieldsOf(r.table_id) :
       f.type = "checkbox" /\ f.id \in DOMAIN r.data => r.data[f.id].k = "boolean"

\* the edit of a checkbox cell without a value was started and saved as it
\* was, with the empty text, and the store holds false
C6_Witness ==
  \E i \in SaveEditCalls("checkbox") :
    /\ tvPending[i].editValue = <<>>
    /\ tvPending[i].ph = "resp" /\ tvPending[i].ok
    /\ \E r \in Range(tvPending[i].records) :
         r.id = tvPending[i].arg /\ tvPending[i].editingCell[1].fieldId \notin DOMAIN r.data
    /\ \E r \in db_records :
         r.id = tvPending[i].arg /\ r.data[tvPending[i].editingCell[1].fieldId] = BoolV(FALSE)

\* the plan of the active subscription of the user, as an option
ActivePlan ==
  IF \E us \in db_user_subscriptions : us.user_id = user /\ us.status = "active"
  THEN Some((CHOOSE us \in db_user_subscriptions :
               us.user_id = user /\ us.status = "active").plan)
  ELSE None

\* the bases in the workspaces that the user owns
OwnedBaseCount ==
  Cardinality({b \in db_bases :
                 \E w \in workspaces : w.id = b.workspace_id /\ w.owner_id = user})

\* the projects of the user, and those of them that are not archived
ProjectCount == Cardinality({p \in db_projects : p.user_id = user})
LiveProjectCount ==
  Cardinality({p \in db_projects : p.user_id = user /\ p.status # "archived"})

\* the stored procedure was called and returned what the gate says for the
\* given count of projects
GateReturns(projectCount) ==
  (last'.op = "rpc" /\ ActivePlan # None) =>
    LET res == rpcResult'[1]
        plan == ActivePlan[1]
    IN /\ res.limit_type = "bases"
            => (res.data <=> (plan.max_bases = -1 \/ OwnedBaseCount < plan.max_bases))
       /\ res.limit_type = "projects"
            => (res.data <=> (plan.max_projects = -1 \/ projectCount < plan.max_projects))

\* C7 as stated: with an active subscription the procedure returns true for
\* 'bases' exactly when max_bases = -1 or the bases in the user's workspaces
\* are fewer than max_bases, and for 'projects' exactly when max_projects = -1
\* or the projects of the user are fewer than max_projects
C7_GateCountsAllProjects == [][GateReturns(ProjectCount)]_vars

\* C7 as amended: the same, the projects counted being those of the user
\* that are not archived
C7_GateCountsLiveProjects == [][GateReturns(LiveProjectCount)]_vars

\* with max_bases = 3 and 3 bases in the user's workspace the procedure
\* returned false for 'bases'
C7_Witness ==
  /\ ActivePlan = Some(FreePlan)
  /\ OwnedBaseCount = FreePlan.max_bases
  /\ rpcResult = Some([limit_type |-> "bases", data |-> FALSE])
  /\ last = Step("rpc", "serve")

\* C8: while the user has an active plan with a base limit and owns that
\* many bases or more, handleCreateBase sends no insert into bases
C8_CreateBaseBlocked ==
  [][(/\ ActivePlan # None
      /\ ActivePlan[1].max_bases # -1
      /\ OwnedBaseCount >= ActivePlan[1].max_bases
      /\ last'.op = "handleCreateBase")
       => /\ last'.ev # "issue"
          /\ Len(wlPending') <= Len(wlPending)]_vars

\* C9: while the user has an active plan with a project limit and that many
\* projects that are not archived, or more, handleCreateProject does not
\* call onOpenBuilder
C9_CreateProjectBlocked ==
  [][(/\ ActivePlan # None
      /\ ActivePlan[1].max_projects # -1
      /\ LiveProjectCount >= ActivePlan[1].max_projects
      /\ last'.op = "handleCreateProject")
       => /\ last'.ev # "onOpenBuilder"
          /\ ~showBuilder']_vars

\* the handlers whose writes C10 is about
WritingHandlers ==
  {"handleAddField", "handleDeleteField", "handleAddRecord", "handleDeleteRecord",
   "handleSaveEdit", "handleCreateTable", "handleDeleteTable", "handleCreateBase"}

\* C10: when the backend answered the write of one of these handlers with an
\* error, the handler leaves the lists of fields, records, tables and bases
\* as they are, the store is not touched and no request is sent: the one
\* that failed leaves and none is added
C10_ErrorLeavesListAlone ==
  [][(last'.op \in WritingHandlers /\ last'.ev = "error")
       => /\ fields' = fields /\ records' = records
          /\ tables' = tables /\ bases' = bases
          /\ storeVars' = storeVars
          /\ Len(wlPending') + Len(bvPending') + Len(tvPending')
               = Len(wlPending) + Len(bvPending) + Len(tvPending) - 1
          /\ \A i \in 1..Len(wlPending') : \E j \in 1..Len(wlPending) : wlPending'[i] = wlPending[j]
          /\ \A i \in 1..Len(bvPending') : \E j \in 1..Len(bvPending) : bvPending'[i] = bvPending[j]
          /\ \A i \in 1..Len(tvPending') : \E j \in 1..Len(tvPending) : tvPending'[i] = tvPending[j]]_vars

\* the delete of a field failed and the field is still shown
C10_Witness ==
  /\ last = Step("handleDeleteField", "error")
  /\ fields # <<>>
  /\ tvPending = <<>>

\* C11: when the backend answered the update of handleSaveEdit with an error,
\* the view is as it was before the handler continued: the lists of fields
\* and records, the table shown, the cell under edit and the text typed
C11_ErrorLeavesViewAlone ==
  [][last' = Step("handleSaveEdit", "error")
       => /\ fields' = fields /\ records' = records
          /\ selectedTable' = selectedTable
          /\ editingCell' = editingCell
          /\ editValue' = editValue]_vars

\* the handlers that ask window.confirm before their request
ConfirmedHandlers ==
  {"handleDeleteField", "handleDeleteRecord", "handleDeleteTable", "handleArchiveProject"}

\* C12: when the confirmation of delete field, delete record, delete table or
\* archive project is declined, the handler returns: no request is sent, the
\* store and the whole view are as before
C12_DeclineChangesNothing ==
  [][(last'.op \in ConfirmedHandlers /\ last'.ev = "return")
       => UNCHANGED <<gridVars, limitVars, builderVars, peer>>]_vars

\* a declined archive of a listed project: the project is still stored as it
\* was listed and nothing is in flight
C12_Witness ==
  /\ last = Step("handleArchiveProject", "return")
  /\ plPending = <<>>
  /\ \E j \in 1..Len(projects) : projects[j] \in db_projects /\ projects[j].status = "active"

\* the update of handleSaveEdit at position i of the requests in flight was
\* applied in this step
UpdateApplied(i) ==
  /\ last' = Step("handleSaveEdit", "serve")
  /\ i \in 1..Len(tvPending)
  /\ tvPending[i].op = "handleSaveEdit" /\ tvPending[i].ph = "sent"
  /\ tvPending' = ReplaceAt(tvPending, i, [tvPending[i] EXCEPT !.ph = "resp", !.ok = TRUE])

\* the data map of record e.arg in the list that the handler of e closed over,
\* and the type of the field of its cell
LocalCopy(e) == FindById(e.records, e.arg)[1].data
CellType(e) == FindById(e.fields, e.editingCell[1].fieldId)[1].type

\* C13: an update of handleSaveEdit that the backend applies replaces the data
\* map of the stored record by the client's copy of it with the key of the
\* edited field set to the coerced value: every other key of the copy is kept
\* with its value, no key is removed, and no other record changes
C13_EditReplacesOneKey ==
  [][\A i \in 1..Len(tvPending) : UpdateApplied(i) =>
       LET e == tvPending[i]
           fieldId == e.editingCell[1].fieldId
       IN /\ \A r \in db_records : r.id # e.arg => r \in db_records'
          /\ Cardinality(db_records') = Cardinality(db_records)
          /\ \A r \in db_records : r.id = e.arg =>
               \E r2 \in db_records' :
                 /\ r2 = [r EXCEPT !.data = r2.data]
                 /\ DOMAIN r2.data = DOMAIN LocalCopy(e) \cup {fieldId}
                 /\ r2.data[fieldId] = CoerceEdit(CellType(e), e.editValue)
                 /\ \A k \in DOMAIN LocalCopy(e) \ {fieldId} : r2.data[k] = LocalCopy(e)[k]]_vars

\* an edit of one cell was applied to a record of two keys while a second
\* record is stored: the other key and the other record are as they were
C13_Witness ==
  /\ last = Step("handleSaveEdit", "serve")
  /\ \E i \in 1..Len(tvPending) :
       /\ tvPending[i].op = "handleSaveEdit" /\ tvPending[i].ph = "resp" /\ tvPending[i].ok
       /\ Cardinality(DOMAIN LocalCopy(tvPending[i])) >= 2
       /\ \E r \in db_records : r.id = tvPending[i].arg /\ r.data # LocalCopy(tvPending[i])
       /\ \E r \in db_records : r.id # tvPending[i].arg

\* C14: the stored tables of every base carry the order_index values
\* 0 .. n-1, each once, n being the number of tables of the base
C14_TableOrderDense ==
  \A b \in db_bases :
    LET ts == {t \in db_tables : t.base_id = b.id}
    IN /\ \A t1, t2 \in ts : t1.order_index = t2.order_index => t1 = t2
       /\ {t.order_index : t \in ts} = 0..(Cardinality(ts) - 1)

\* C15: when the insert of the table succeeded the handler lists and selects
\* the stored table, which has no field yet; when the insert of its default
\* field 'Name' is then refused the handler changes nothing: the table stays
\* stored, listed and selected without that field, and nothing more is sent,
\* no delete and no second insert
C15_TableKeptWithoutField ==
  [][/\ last' = Step("handleCreateTable", "ok")
          => \A i \in 1..Len(bvPending) :
               (bvPending[i].op = "handleCreateTable" /\ bvPending[i].ph = "tableResp") =>
                 LET row == bvPending[i].row[1]
                 IN /\ row \in db_tables'
                    /\ \E j \in 1..Len(tables') : tables'[j] = row
                    /\ selectedTable' = Some(row)
                    /\ {f \in db_fields' : f.table_id = row.id} = {}
     /\ (last' = Step("handleCreateTable", "serveField") /\ db_fields' = db_fields)
          => /\ storeVars' = storeVars
             /\ tables' = tables /\ selectedTable' = selectedTable
             /\ wlVars' = wlVars /\ tvVars' = tvVars
             /\ \E i \in 1..Len(bvPending) :
                  /\ bvPending[i].op = "handleCreateTable" /\ bvPending[i].ph = "insertField"
                  /\ bvPending' = RemoveAt(bvPending, i)]_vars

\* the insert of the default field has been refused: the table created is
\* stored, shown and selected, it has no field, and nothing is in flight
C15_Witness ==
  /\ last = Step("handleCreateTable", "serveField")
  /\ selectedTable # None
  /\ selectedTable[1] \in db_tables
  /\ \E j \in 1..Len(tables) : tables[j] = selectedTable[1]
  /\ {f \in db_fields : f.table_id = selectedTable[1].id} = {}
  /\ bvPending = <<>>

\* the updates at positions i and j come from the two browsers, which had
\* loaded the same data map of the same record, and edit different fields
SameRecordOtherField(i, j) ==
  /\ tvPending[i].op = "handleSaveEdit" /\ tvPending[j].op = "handleSaveEdit"
  /\ tvPending[i].mounted # tvPending[j].mounted
  /\ tvPending[i].arg = tvPending[j].arg
  /\ LocalCopy(tvPending[i]) = LocalCopy(tvPending[j])
  /\ tvPending[i].editingCell[1].fieldId # tvPending[j].editingCell[1].fieldId

\* C16: each update of handleSaveEdit that is applied stores the whole map
\* its browser sent; when the other browser's update of another field of the
\* same loaded record was applied before, the stored map is that of the
\* update applied last and holds, for the other field, the loaded value
C16_LastUpdateWins ==
  [][\A i \in 1..Len(tvPending) : UpdateApplied(i) =>
       LET e == tvPending[i]
       IN \A r2 \in db_records' : r2.id = e.arg =>
            /\ r2.data = e.req[1].data
            /\ \A j \in 1..Len(tvPending) :
                 (SameRecordOtherField(i, j) /\ tvPending[j].ph = "resp" /\ tvPending[j].ok) =>
                   r2.data[tvPending[j].editingCell[1].fieldId]
                     = LocalCopy(e)[tvPending[j].editingCell[1].fieldId]]_vars

\* both browsers' updates were applied and the stored map lacks the value
\* that the first of them had saved
C16_Witness ==
  /\ last = Step("handleSaveEdit", "serve")
  /\ \E i, j \in 1..Len(tvPending) :
       /\ SameRecordOtherField(i, j)
       /\ tvPending[i].ph = "resp" /\ tvPending[i].ok
       /\ tvPending[j].ph = "resp" /\ tvPending[j].ok
       /\ \E r \in db_records :
            /\ r.id = tvPending[i].arg
            /\ r.data = tvPending[i].req[1].data
            /\ r.data[tvPending[j].editingCell[1].fieldId]
                 # tvPending[j].req[1].data[tvPending[j].editingCell[1].fieldId]

\* the insert of handleAddField at position i of the requests in flight was
\* applied in this step
InsertApplied(i) ==
  /\ last' = Step("handleAddField", "serve")
  /\ i \in 1..Len(tvPending)
  /\ tvPending[i].op = "handleAddField" /\ tvPending[i].ph = "sent"
  /\ db_fields' # db_fields
  /\ \E row \in db_fields' \ db_fields :
       tvPending' = ReplaceAt(tvPending, i,
         [tvPending[i] EXCEPT !.ph = "resp", !.ok = TRUE, !.row = Some(row)])

\* the add-field calls answered with their stored row, the handler not yet
\* continued
AddedFields == {i \in 1..Len(tvPending) :
                 tvPending[i].op = "handleAddField" /\ tvPending[i].ph = "resp" /\ tvPending[i].ok}

\* C17: the backend stores a field with the order_index its caller sent, the
\* length of the field list of the caller's render; an insert applied after
\* another insert from a render with the same n fields of the same table
\* stores a second field with order_index n
C17_SameLengthSameIndex ==
  [][\A i \in 1..Len(tvPending) : InsertApplied(i) =>
       LET e == tvPending[i]
           row == tvPending'[i].row[1]
       IN /\ row.order_index = Len(e.fields)
          /\ db_fields' = db_fields \cup {row}
          /\ \A j \in AddedFields :
               (tvPending[j].tid = e.tid /\ Len(tvPending[j].fields) = Len(e.fields)) =>
                 /\ tvPending[j].row[1] \in db_fields'
                 /\ tvPending[j].row[1].id # row.id
                 /\ tvPending[j].row[1].order_index = row.order_index]_vars

\* the two browsers had loaded the same two fields and each added a field:
\* the table stores both with order_index 2
C17_Witness ==
  \E i, j \in AddedFields :
    /\ tvPending[i].mounted /\ ~tvPending[j].mounted
    /\ tvPending[i].fields = tvPending[j].fields
    /\ tvPending[i].row[1] \in db_fields /\ tvPending[j].row[1] \in db_fields
    /\ tvPending[i].row[1].table_id = tvPending[j].row[1].table_id
    /\ tvPending[i].row[1].order_index = Len(tvPending[i].fields)
    /\ tvPending[j].row[1].order_index = Len(tvPending[i].fields)

\* one browser added two fields, the second before the first insert had
\* returned: the table stores both with the same order_index
OverlappingAdds ==
  \E i, j \in AddedFields :
    /\ i # j /\ tvPending[i].mounted /\ tvPending[j].mounted
    /\ tvPending[i].row[1] \in db_fields /\ tvPending[j].row[1] \in db_fields
    /\ tvPending[i].row[1].order_index = tvPending[j].row[1].order_index

\* C18: every stored session of type 'discussion' has credits_consumed 0
C18_DiscussionIsFree ==
  \A s \in db_ai_sessions : s.session_type = "discussion" => s.credits_consumed = 0

\* the request of handler op for change request id that the backend serves
\* in this step
ServedFor(op, id) ==
  /\ last' = Step(op, "serve")
  /\ \E i \in 1..Len(abPending) :
       /\ abPending[i].op = op /\ abPending[i].ph = "sent" /\ abPending[i].arg = id
       /\ abPending' = ReplaceAt(abPending, i, [abPending[i] EXCEPT !.ph = "resp", !.ok = TRUE])

\* C19: a change request enters the store only by the insert of a build-mode
\* handleSend and with status 'pending'; when the handler continues, the row
\* heads the list of pending changes on screen; no row leaves the store, and
\* the status of a row changes only when the backend serves the update of
\* handleApproveChange for its id, to 'approved', or of handleRejectChange
\* for its id, to 'rejected'
C19_PendingUntilDecided ==
  [][/\ \A c \in {d \in db_change_requests' : \A b \in db_change_requests : b.id # d.id} :
          /\ c.status = "pending"
          /\ last' = Step("handleSend", "serveChange")
          /\ \E i \in 1..Len(abPending) :
               /\ abPending[i].op = "handleSend" /\ abPending[i].mode = "build"
               /\ abPending'[i].row = Some(c)
     /\ last' = Step("handleSend", "changeOk")
          => \E i \in 1..Len(abPending) :
               /\ abPending[i].op = "handleSend" /\ abPending[i].ph = "changeResp"
               /\ abPending[i].ok /\ abPending[i].row[1] \in db_change_requests
               /\ pendingChanges' # <<>> /\ pendingChanges'[1] = abPending[i].row[1]
     /\ \A c \in db_change_requests :
          /\ \E d \in db_change_requests' : d.id = c.id
          /\ \A d \in db_change_requests' :
               (d.id = c.id /\ d.status # c.status) =>
                 \/ d.status = "approved" /\ ServedFor("handleApproveChange", c.id)
                 \/ d.status = "rejected" /\ ServedFor("handleRejectChange", c.id)]_vars

\* a change request that a send created has been rejected while the one
\* that was stored before is still pending
C19_Witness ==
  /\ last = Step("handleRejectChange", "serve")
  /\ \E c \in db_change_requests : c.id # OldChange.id /\ c.status = "rejected"
  /\ OldChange \in db_change_requests

\* the steps of handleApproveChange and handleRejectChange
DecisionStep == last'.op \in {"handleApproveChange", "handleRejectChange"}

\* the tables that neither handler names
OtherTables ==
  <<db_bases, db_tables, db_fields, db_records, db_projects, db_user_subscriptions,
    db_ai_sessions, db_llm_requests, db_usage_events>>

\* C20 as stated: a step of handleApproveChange or handleRejectChange changes
\* nothing in the backend but the status of the change request it is for: no
\* other column, no other row and no other table
C20_OnlyStatusChanges ==
  [][DecisionStep =>
       /\ UNCHANGED <<OtherTables, db_pipeline_stages>>
       /\ Cardinality(db_change_requests') = Cardinality(db_change_requests)
       /\ \A c \in db_change_requests :
            \/ c \in db_change_requests'
            \/ /\ \E d \in {"approved", "rejected"} :
                     [c EXCEPT !.status = d] \in db_change_requests'
               /\ \/ ServedFor("handleApproveChange", c.id)
                  \/ ServedFor("handleRejectChange", c.id)]_vars

\* C20 as amended: handleRejectChange changes only the status of its change
\* request; handleApproveChange changes status, approved_by and approved_at
\* of its change request and, when the builder has a project, then sends one
\* insert into pipeline_stages, whose row, if stored, is a running 'code'
\* stage of that project; no other row and no other table changes
C20_ApproveStampsAndStages ==
  [][DecisionStep =>
       /\ UNCHANGED OtherTables
       /\ Cardinality(db_change_requests') = Cardinality(db_change_requests)
       /\ \A c \in db_change_requests :
            \/ c \in db_change_requests'
            \/ /\ [c EXCEPT !.status = "rejected"] \in db_change_requests'
               /\ ServedFor("handleRejectChange", c.id)
            \/ /\ [c EXCEPT !.status = "approved", !.approved_by = Some(user),
                             !.approved_at = Some("now")] \in db_change_requests'
               /\ ServedFor("handleApproveChange", c.id)
       /\ db_pipeline_stages' # db_pipeline_stages =>
            /\ last' = Step("handleApproveChange", "servePipeline")
            /\ db_change_requests' = db_change_requests
            /\ \E row \in db_pipeline_stages' :
                 /\ db_pipeline_stages' = db_pipeline_stages \cup {row}
                 /\ row.stage_name = "code" /\ row.agent_type = "coder"
                 /\ row.status = "running"
                 /\ Some(row.project_id) = selectedProjectId]_vars

\* a change request was approved: it carries the approver, and the stage
\* that the handler inserted is stored
C20_Witness ==
  /\ last = Step("handleApproveChange", "servePipeline")
  /\ db_pipeline_stages # {}
  /\ \E c \in db_change_requests : c.status = "approved" /\ c.approved_by = Some(user)

\* every stored row references a stored parent
References ==
  /\ \A t \in db_tables : \E b \in db_bases : b.id = t.base_id
  /\ \A f \in db_fields : \E t \in db_tables : t.id = f.table_id
  /\ \A r \in db_records : \E t \in db_tables : t.id = r.table_id

\* C24: every stored field and record references a stored table and every
\* stored table a stored base, in every state; the step in which the backend
\* deletes a table leaves no field and no record of that table
C24_CascadeKeepsReferences ==
  /\ References
  /\ [][/\ References'
        /\ \A t \in db_tables : t \notin db_tables' =>
             /\ last' = Step("handleDeleteTable", "serve")
             /\ {f \in db_fields' : f.table_id = t.id} = {}
             /\ {r \in db_records' : r.table_id = t.id} = {}]_vars

\* a table was deleted whose fields the grid still shows: the store holds
\* none of them
C24_Witness ==
  /\ last = Step("handleDeleteTable", "serve")
  /\ fields # <<>>
  /\ \A t \in db_tables : t.id # fields[1].table_id
  /\ \A j \in 1..Len(fields) : fields[j] \notin db_fields

\* C26: once BaseView has loaded, the table selected is none or one of the
\* tables of the local list
C26_SelectionInList ==
  BvReady => \/ selectedTable = None
             \/ \E j \in 1..Len(tables) : tables[j] = selectedTable[1]

\* C30: the base, which has tables when BaseView opens, stores at least one
\* table in every state
C30_OneTableRemains ==
  \A b \in db_bases : {t \in db_tables : t.base_id = b.id} # {}

\* an operation of the grid has completed and no request is in flight
GridOperations ==
  {"handleCreateTable", "handleAddField", "handleDeleteField", "handleAddRecord",
   "handleDeleteRecord", "handleSaveEdit"}
GridAtRest ==
  /\ last.op \in GridOperations /\ last.ev \in {"ok", "serveField"}
  /\ wlPending = <<>> /\ bvPending = <<>> /\ tvPending = <<>>
  /\ BvReady /\ selectedTable # None /\ TvReady

\* C28: when an operation of the grid has completed, the lists of fields and
\* records on screen are the stored fields of the open table by order_index
\* and its stored records by created_at, newest first
C28_ViewEqualsStore ==
  GridAtRest =>
    /\ fields \in OrderByIndexAsc({f \in db_fields : f.table_id = selectedTable[1].id})
    /\ records \in OrderByCreatedDesc({r \in db_records : r.table_id = selectedTable[1].id})

\* C25: without a subscription row of status 'active' the procedure returns
\* false for every limit type; for 'projects' it leaves archived projects
\* out: when a project of a user at the limit is archived the procedure
\* returns true from then on, checkLimits receives what the procedure
\* returns and canCreateMore is set to it
C25_ArchiveFreesTheGate ==
  [][/\ ActivePlan = None =>
          /\ \A t \in LIMIT_TYPES : ~check_user_subscription_limit(user, t)
          /\ last' = Step("rpc", "serve") => ~rpcResult'[1].data
     /\ (/\ last' = Step("handleArchiveProject", "serve")
         /\ db_projects' # db_projects
         /\ ActivePlan # None
         /\ LiveProjectCount = ActivePlan[1].max_projects)
          => /\ ~check_user_subscription_limit(user, "projects")
             /\ LiveProjectCount' = LiveProjectCount - 1
             /\ check_user_subscription_limit(user, "projects")'
     /\ last' = Step("checkLimits", "serve")
          => \A i \in 1..Len(plPending') :
               (plPending'[i].op = "checkLimits" /\ plPending'[i].ph = "resp"
                  /\ plPending'[i].ok) =>
                 plPending'[i].data = Some(check_user_subscription_limit(user, "projects"))
     /\ last' = Step("checkLimits", "ok")
          => canCreateMore' = check_user_subscription_limit(user, "projects")]_vars

\* the checkLimits call of handleArchiveProject has been answered with true
\* for a user of the Free plan whose one project is now archived, while
\* canCreateMore is still false from the check at the limit
C25_Witness ==
  /\ last = Step("checkLimits", "serve")
  /\ ActivePlan = Some(FreePlan)
  /\ ~canCreateMore
  /\ LiveProjectCount = 0 /\ ProjectCount = 1
  /\ \E i \in 1..Len(plPending) :
       plPending[i].op = "checkLimits" /\ plPending[i].data = Some(TRUE)

Decided(c) == c.status # "pending"

\* C27: a change request that was approved or rejected is not listed in
\* pendingChanges once the requests of the builder have returned, also when
\* the decisions of two change requests overlap
C27_NeverListedAgain ==
  \A c \in db_change_requests :
    (Decided(c) /\ abPending = <<>>) => FindById(pendingChanges, c.id) = None

\* C29: when a handleSend has completed with its update served, the messages
\* stored in the ai_sessions row of the session equal the local message list
C29_StoredEqualsLocal ==
  (last = Step("handleSend", "ok") /\ sessionId # None) =>
    \A s \in db_ai_sessions : s.id = sessionId[1] => s.messages = messages

\* the chat ends with a message of the user and the response to it
Answered ==
  /\ Len(messages) >= 2
  /\ messages[Len(messages) - 1].role = "user"
  /\ messages[Len(messages)] =
       assistantMessage(mode, messages[Len(messages) - 1].content[2])

\* C21: a prompt submitted through handleSend, in either mode and with or
\* without a project, is eventually followed by the assistant message with
\* the canned summary, with loading back to false
C21_SendIsAnswered ==
  [](abLoading => <>(~abLoading /\ Answered))

DefaultWorkspaces ==
  {w \in db_workspaces : w.owner_id = user /\ w.name = "My Workspace"}

\* C23: however often loadWorkspaces runs, overlapping runs and failed
\* inserts of the membership included, the user gets at most one default
\* workspace 'My Workspace'
C23_OneDefaultWorkspace == Cardinality(DefaultWorkspaces) <= 1

\* the text shows a minus sign, as the raw value -1 does
ShowsRaw(text) == \E i \in 1..Len(text) : text[i] = "-"

\* C22: no plan card and no row of the usage panel shows the raw value -1 of
\* a limit, no bar is drawn for a limit of -1, and the procedure allows
\* projects and bases when the limit of the active plan is -1
C22_MinusOneIsUnlimited ==
  /\ \A j \in 1..Len(plans) :
       \A k \in 1..Len(PlanCard(plans[j])) : ~ShowsRaw(PlanCard(plans[j])[k])
  /\ usage # None =>
       \A k \in 1..Len(UsagePanel(usage[1])) :
         /\ ~ShowsRaw(UsagePanel(usage[1])[k].text)
         /\ UsagePanel(usage[1])[k].bar # None =>
              UsagePanel(usage[1])[k].bar[1].width \in 0..100
  /\ \A us \in db_user_subscriptions :
       /\ (us.user_id = user /\ us.status = "active" /\ us.plan.max_projects = -1)
            => check_user_subscription_limit(user, "projects")
       /\ (us.user_id = user /\ us.status = "active" /\ us.plan.max_bases = -1)
            => check_user_subscription_limit(user, "bases")

====
